---- MODULE Spec2Model ----
(***************************************************************************)
(* Model of the FTP_Galaxy2 synchronisation engine (SYNC_APP):             *)
(*   - the retry envelope of the transport adapter (Ftp._ftp_call),        *)
(*   - the controller's run (gate, planner, transfer, validator, commit).  *)
(***************************************************************************)
EXTENDS Integers, Sequences, FiniteSets, TLC

VARIABLES
    \* ---- Ftp._ftp_call (ADAPTERS/ftp.py) ----
    fc_pc,          \* position inside _ftp_call
    fc_repeat,      \* context.app.ftp_repeat
    fc_iter,        \* iterations of "for _ in range(repeat)" started so far
    fc_cur,         \* exception being handled (e)
    fc_recon,       \* what the last _reconnect() raised (recon_e), NoError if it succeeded
    fc_last_error,  \* last_error
    fc_outcome,     \* what _ftp_call returned or raised
    fc_trace,       \* events performed so far, in order
    \* ---- SyncController.run (APP/controller.py) and the services it calls ----
    run_pc,         \* position inside the run
    live,           \* context.app.local_dir: name -> entry
    staging,        \* context.app.new_dir (NEW)
    retired,        \* context.app.old_dir (OLD)
    ftp_dir,        \* the directory on the FTP server
    stamp,          \* content of the execution gate's stamp file
    runtime_context, \* RuntimeContext: once_per_day, mode_stop_list, add_list, stop_list
    plan_before,    \* plan_before: to_delete, to_download
    verdict,        \* is_validate_plan, is_validate_download, is_validate_commit
    general_report, \* general_report
    transfer_report,\* TransferService.report
    idx,            \* index of the loop over the plan's list being processed
    copy,           \* _copy_files: names still to copy, name being copied
    exit,           \* exception that ended the run, "none" while it runs
    hist,           \* history: directories at start and at commit, decisions, faults
    \* ---- single calls of a service, studied on their own ----
    dp,             \* DiffPlanner.run: its input and what it returned
    df,             \* Ftp.download_file: its locals, the files and the fetches issued
    dd,             \* Ftp.download_dir: its position and the commands issued
    vs,             \* ValidateService.run: its input and what it returned
    eg              \* ExecutionGate: the day, the stamp file and the calls made

ftpVars == <<fc_pc, fc_repeat, fc_iter, fc_cur, fc_recon, fc_last_error, fc_outcome, fc_trace>>

runVars == <<run_pc, live, staging, retired, ftp_dir, stamp, runtime_context, plan_before, verdict,
             general_report, transfer_report, idx, copy, exit, hist>>

unitVars == <<dp, df, dd, vs, eg>>

vars == <<fc_pc, fc_repeat, fc_iter, fc_cur, fc_recon, fc_last_error, fc_outcome, fc_trace,
          run_pc, live, staging, retired, ftp_dir, stamp, runtime_context, plan_before, verdict,
          general_report, transfer_report, idx, copy, exit, hist, dp, df, dd, vs, eg>>

(***************************************************************************)
(* Bounds                                                                  *)
(***************************************************************************)
MaxRepeat == 3

(***************************************************************************)
(* Exceptions of the transport layer                                       *)
(***************************************************************************)
\* the classes named in TEMP_EXCEPTIONS
TEMP_EXCEPTIONS ==
    {"timeout", "OSError", "error_temp", "EOFError",
     "ConnectionResetError", "BrokenPipeError", "AttributeError"}

\* ftplib's permanent / protocol errors
PermanentClasses == {"error_perm", "error_reply", "error_proto"}

\* classes an action may raise: temporary, permanent, and one unrelated class
ActionExceptions == TEMP_EXCEPTIONS \cup PermanentClasses \cup {"ValueError"}

\* classes a reconnect (connect/login/cwd, one attempt) may raise
ReconnectExceptions == {"OSError", "error_perm"}

\* what the server/network did on one invocation of the action, by the class raised
EventOf(cls) ==
    IF cls \in {"timeout", "OSError", "error_temp", "EOFError",
                "ConnectionResetError", "BrokenPipeError", "AttributeError"}
    THEN "action_temp"
    ELSE IF cls \in {"error_perm", "error_reply", "error_proto"}
         THEN "action_perm"
         ELSE "action_unknown"

NoError == [cls |-> "None", src |-> "none", at |-> 0]

Exc(cls, src, at) == [cls |-> cls, src |-> src, at |-> at]

\* Python truthiness of "recon_e or e": an exception object is truthy, None is not
Truthy(e) == e # NoError

\* variant: permanent replies are taken for temporary faults
Mut_IsTemporaryAll(e) == e.cls \in TEMP_EXCEPTIONS \cup PermanentClasses

\* Ftp._is_temporary_ftp_error
IsTemporaryFtpError(e) == e.cls \in TEMP_EXCEPTIONS

\* Ftp._raise_permanent_ftp_error followed by the "unknown error" raise:
\* every non-temporary exception leaves _ftp_call as err_cls chained to e
RaisePermanent(e) == [kind |-> "err_cls", cause |-> e,
                      why |-> IF e.cls \in PermanentClasses THEN "permanent" ELSE "unknown"]

NoOutcome == [kind |-> "none", cause |-> NoError, why |-> "none"]

(***************************************************************************)
(* Ftp._ftp_call                                                           *)
(***************************************************************************)
FtpCallStart ==
    /\ fc_pc = "loop"
    /\ fc_repeat \in 1..MaxRepeat
    /\ fc_iter = 0
    /\ fc_cur = NoError
    /\ fc_recon = NoError
    /\ fc_last_error = NoError
    /\ fc_outcome = NoOutcome
    /\ fc_trace = <<>>

\* "return action()" succeeds
ActionReturns ==
    /\ fc_pc = "loop"
    /\ fc_iter < fc_repeat
    /\ fc_iter' = fc_iter + 1
    /\ fc_trace' = Append(fc_trace, "action_ok")
    /\ fc_outcome' = [kind |-> "result", cause |-> NoError, why |-> "ok"]
    /\ fc_pc' = "returned"
    /\ UNCHANGED <<fc_repeat, fc_cur, fc_recon, fc_last_error>>
    /\ UNCHANGED runVars
    /\ UNCHANGED unitVars

\* "return action()" raises e
ActionRaises ==
    /\ fc_pc = "loop"
    /\ fc_iter < fc_repeat
    /\ \E cls \in ActionExceptions :
         LET e == Exc(cls, "action", fc_iter + 1) IN
         /\ fc_iter' = fc_iter + 1
         /\ fc_trace' = Append(fc_trace, EventOf(cls))
         /\ fc_cur' = e
         /\ IF IsTemporaryFtpError(e)
            THEN /\ fc_pc' = "reconnect"
                 /\ UNCHANGED fc_outcome
            ELSE /\ fc_outcome' = RaisePermanent(e)
                 /\ fc_pc' = "raised"
    /\ UNCHANGED <<fc_repeat, fc_recon, fc_last_error>>
    /\ UNCHANGED runVars
    /\ UNCHANGED unitVars

\* variant: the failure of the reconnect is forgotten
Mut_LastErrorAction(recon_e, e) == e

\* "last_error = recon_e or e"
LastErrorOf(recon_e, e) == IF Truthy(recon_e) THEN recon_e ELSE e

\* a reconnect failure that propagates instead of being returned
Mut_ReconnectFailureRaises ==
    /\ fc_pc = "reconnect"
    /\ \E r \in {"ok"} \cup ReconnectExceptions :
         LET recon_e == IF r = "ok" THEN NoError ELSE Exc(r, "reconnect", fc_iter) IN
         /\ fc_trace' = Append(fc_trace, IF r = "ok" THEN "reconnect_ok" ELSE "reconnect_fail")
         /\ fc_recon' = recon_e
         /\ fc_last_error' = LastErrorOf(recon_e, fc_cur)
         /\ fc_pc' = IF r = "ok" THEN "sleep" ELSE "raised"
         /\ fc_outcome' = IF r = "ok" THEN fc_outcome
                          ELSE [kind |-> "err_cls", cause |-> recon_e, why |-> "reconnect"]
    /\ UNCHANGED <<fc_repeat, fc_iter, fc_cur>>
    /\ UNCHANGED runVars
    /\ UNCHANGED unitVars

\* Ftp._handle_temporary_ftp_error: one _reconnect(), its failure is returned, not raised
HandleTemporaryFtpError ==
    /\ fc_pc = "reconnect"
    /\ \E r \in {"ok"} \cup ReconnectExceptions :
         LET recon_e == IF r = "ok" THEN NoError ELSE Exc(r, "reconnect", fc_iter) IN
         /\ fc_trace' = Append(fc_trace, IF r = "ok" THEN "reconnect_ok" ELSE "reconnect_fail")
         /\ fc_recon' = recon_e
         /\ fc_last_error' = LastErrorOf(recon_e, fc_cur)
    /\ fc_pc' = "sleep"
    /\ UNCHANGED <<fc_repeat, fc_iter, fc_cur, fc_outcome>>
    /\ UNCHANGED runVars
    /\ UNCHANGED unitVars

\* Ftp._sleep_retry_delay, then "continue"
SleepRetryDelay ==
    /\ fc_pc = "sleep"
    /\ fc_trace' = Append(fc_trace, "sleep")
    /\ fc_pc' = "loop"
    /\ UNCHANGED <<fc_repeat, fc_iter, fc_cur, fc_recon, fc_last_error, fc_outcome>>
    /\ UNCHANGED runVars
    /\ UNCHANGED unitVars

\* the "for" is exhausted: raise err_cls(...) from last_error
RetriesExhausted ==
    /\ fc_pc = "loop"
    /\ fc_iter >= fc_repeat
    /\ fc_outcome' = [kind |-> "err_cls", cause |-> fc_last_error, why |-> "exhausted"]
    /\ fc_pc' = "raised"
    /\ UNCHANGED <<fc_repeat, fc_iter, fc_cur, fc_recon, fc_last_error, fc_trace>>
    /\ UNCHANGED runVars
    /\ UNCHANGED unitVars



(***************************************************************************)
(* File names, contents and directories                                    *)
(***************************************************************************)
\* Largest file size (bytes) in the model
MaxSize == 2

\* File names are strings, modelled as sequences of characters
NameA1 == <<"a", "_", "1", ".", "z">>
NameB == <<"b", ".", "z">>
Names == {NameA1, NameB}

\* the component name of NameA1, as an operator writes it into stop_list
ComponentA == <<"a", ".", "z">>

\* code points of the characters used (Python compares str by code point)
CharCode ==
    [c \in {"-", ".", "0", "1", "2", "_", "a", "b", "m", "p", "t", "z"} |->
        CASE c = "-" -> 45 [] c = "." -> 46 [] c = "0" -> 48 [] c = "1" -> 49
          [] c = "2" -> 50 [] c = "_" -> 95 [] c = "a" -> 97 [] c = "b" -> 98
          [] c = "m" -> 109 [] c = "p" -> 112 [] c = "t" -> 116 [] c = "z" -> 122]

Digits == {"0", "1", "2"}

\* str.__lt__ / __le__: lexicographic by code point
RECURSIVE NameLE(_, _)
NameLE(x, y) ==
    IF x = <<>> THEN TRUE
    ELSE IF y = <<>> THEN FALSE
    ELSE IF Head(x) = Head(y) THEN NameLE(Tail(x), Tail(y))
    ELSE CharCode[Head(x)] < CharCode[Head(y)]

\* sorted(S) for a set of names
RECURSIVE SortedNames(_)
SortedNames(S) ==
    IF S = {} THEN <<>>
    ELSE LET m == CHOOSE x \in S : \A y \in S : NameLE(x, y)
         IN <<m>> \o SortedNames(S \ {m})

\* A directory maps the names present in it to entries; an entry is a regular
\* file with its bytes, or another kind of object
File(data) == [kind |-> "file", data |-> data]
IsFile(e) == e.kind = "file"
EmptyDir == [n \in {} |-> File(<<>>)]

Present(dir) == DOMAIN dir
Put(dir, n, e) == [m \in (DOMAIN dir) \cup {n} |-> IF m = n THEN e ELSE dir[m]]
Remove(dir, n) == [m \in (DOMAIN dir) \ {n} |-> dir[m]]

\* bytes of the old (local) and of the new (remote) version of a component
OldBytes(k) == [i \in 1..k |-> 1]
NewBytes(k) == [i \in 1..k |-> 2]

(***************************************************************************)
(* name_file_to_name_component (INFRA/utils.py)                            *)
(***************************************************************************)
LastIndexOf(name, c) ==
    LET S == {i \in 1..Len(name) : name[i] = c}
    IN IF S = {} THEN 0 ELSE CHOOSE i \in S : \A j \in S : j <= i

\* os.path.splitext: the extension starts at the last dot, unless only dots precede it
SplitExt(name) ==
    LET d == LastIndexOf(name, ".")
    IN IF d > 0 /\ \E j \in 1..(d - 1) : name[j] # "."
       THEN [stem |-> SubSeq(name, 1, d - 1), suffix |-> SubSeq(name, d, Len(name))]
       ELSE [stem |-> name, suffix |-> <<>>]

\* str.isdigit for the characters of the model
IsDigitStr(t) == t # <<>> /\ \A i \in 1..Len(t) : t[i] \in Digits

NameFileToNameComponent(name) ==
    LET sp == SplitExt(name)
        u == LastIndexOf(sp.stem, "_")
        tail == SubSeq(sp.stem, u + 1, Len(sp.stem))
        stem == IF u > 0 /\ IsDigitStr(tail) THEN SubSeq(sp.stem, 1, u - 1) ELSE sp.stem
    IN stem \o sp.suffix

(***************************************************************************)
(* Snapshots (SERVICES/snapshot_service.py, ADAPTERS/ftp.py download_dir)  *)
(***************************************************************************)
NoSize == -1
NoHash == [known |-> FALSE, digest |-> <<>>]

\* a digest as the text that carries it
Hash(text) == [known |-> TRUE, digest |-> text]

\* hashlib.md5(...).hexdigest(): lower-case text, equal exactly for equal bytes
Md5(data) == Hash([i \in 1..Len(data) |-> IF data[i] = 1 THEN "a" ELSE "b"])

\* the last word of the server's reply to XMD5: the same digest in upper case
Xmd5(data) == Hash([i \in 1..Len(data) |-> IF data[i] = 1 THEN "A" ELSE "B"])

FileSnapshot(name, size, md5_hash) == [name |-> name, size |-> size, md5_hash |-> md5_hash]

\* SnapshotService._allowed; only_for = Names stands for "no filter" where noted
Allowed(name, filtered, only_for) == (~filtered) \/ name \in only_for

\* SnapshotService.local
LocalSnapshot(dir, mode, filtered, only_for) ==
    LET S == {n \in Present(dir) : IsFile(dir[n]) /\ Allowed(n, filtered, only_for)}
    IN [n \in S |->
          FileSnapshot(n, Len(dir[n].data),
                       IF mode = "FULL_MODE" THEN Md5(dir[n].data) ELSE NoHash)]

\* Ftp._build_dir_items (entries of type "file", only_for, size fact, XMD5 in full mode)
RemoteSnapshot(dir, mode, filtered, only_for) ==
    LET S == {n \in Present(dir) : IsFile(dir[n]) /\ Allowed(n, filtered, only_for)}
    IN [n \in S |->
          FileSnapshot(n, Len(dir[n].data),
                       IF mode = "FULL_MODE" THEN Xmd5(dir[n].data) ELSE NoHash)]


(***************************************************************************)
(* Diff planner (SERVICES/diff_planer.py)                                  *)
(***************************************************************************)
ReportItem(name, status, comment) == [name |-> name, status |-> status, comment |-> comment]

\* DiffPlanner._compute_sync_name_sets
ComputeSyncNameSets(local_names, remote_names) ==
    [common |-> local_names \cap remote_names,
     delete |-> local_names \ remote_names,
     download |-> remote_names \ local_names]

\* variant: the stop-list excludes nothing
Mut_NothingExcluded(stop_list, downloads) == {}

\* DiffPlanner._get_files_excluded_by_stop_list
GetFilesExcludedByStopList(stop_list, downloads) ==
    {item \in downloads : NameFileToNameComponent(item) \in stop_list}

\* DiffPlanner._apply_stop_add_lists
ApplyStopAddLists(ctx, raw_download_names, raw_delete_names, raw_remote_names) ==
    IF raw_download_names = {}
    THEN [download |-> {}, delete |-> {}, denied |-> {}]
    ELSE LET with_add_dl == raw_download_names \cup (ctx.add_list \cap raw_remote_names)
             with_add_del == raw_delete_names \cup (ctx.add_list \cap raw_remote_names)
             denied == IF ctx.mode_stop_list = "USE_STOP_LIST"
                       THEN GetFilesExcludedByStopList(ctx.stop_list, with_add_dl)
                       ELSE {}
         IN [download |-> with_add_dl \ denied, delete |-> with_add_del, denied |-> denied]

\* DiffPlanner._collect_snapshots (names missing from files are skipped); the order
\* of the result is the iteration order of a set, fixed here as the sorted one
RECURSIVE SeqOfNames(_, _)
SeqOfNames(files, sorted_names) ==
    IF sorted_names = <<>> THEN <<>>
    ELSE (IF Head(sorted_names) \in DOMAIN files THEN <<files[Head(sorted_names)]>> ELSE <<>>)
         \o SeqOfNames(files, Tail(sorted_names))

CollectSnapshots(files, names) == SeqOfNames(files, SortedNames(names))

\* DiffPlanner._get_mismatched_files: FileSnapshot(name, size=None, md5_hash=None)
RECURSIVE MismatchSeq(_, _, _)
MismatchSeq(sorted_names, local_files, remote_files) ==
    IF sorted_names = <<>> THEN <<>>
    ELSE LET n == Head(sorted_names)
         IN (IF local_files[n].size # remote_files[n].size
             THEN <<FileSnapshot(n, NoSize, NoHash)>> ELSE <<>>)
            \o MismatchSeq(Tail(sorted_names), local_files, remote_files)

\* variant: a common name is taken for an unchanged file
Mut_NoMismatch(common_names, local_files, remote_files) == <<>>

GetMismatchedFiles(common_names, local_files, remote_files) ==
    MismatchSeq(SortedNames(common_names), local_files, remote_files)

SeqNames(list) == {list[i].name : i \in 1..Len(list)}

\* sorted(list, key=attrgetter("name")): stable
RECURSIVE StableByName(_, _)
StableByName(list, sorted_names) ==
    IF sorted_names = <<>> THEN <<>>
    ELSE SelectSeq(list, LAMBDA x : x.name = Head(sorted_names))
         \o StableByName(list, Tail(sorted_names))

SortedByName(list) == StableByName(list, SortedNames(SeqNames(list)))

\* DiffPlanner._build_plan
BuildPlan(to_delete, to_download, mismatched) ==
    [to_delete |-> SortedByName(to_delete \o mismatched),
     to_download |-> SortedByName(to_download \o mismatched)]

\* DiffPlanner._build_report
BuildReport(denied_download) ==
    LET names == SortedNames(denied_download)
    IN [i \in 1..Len(names) |-> ReportItem(names[i], "WARNING", "stop list")]

\* DiffPlanner._build_sync_plan, from the adjusted name sets on
SyncPlanOfAdjusted(adj, common, local_snap, remote_snap) ==
    [to_delete |-> CollectSnapshots(local_snap, adj.delete),
     to_download |-> CollectSnapshots(remote_snap, adj.download),
     denied_download |-> adj.denied,
     mismatched |-> GetMismatchedFiles(common, local_snap, remote_snap)]

\* DiffPlanner._build_sync_plan, from the raw name sets on
SyncPlanOfSets(ctx, sets, local_snap, remote_snap) ==
    SyncPlanOfAdjusted(
        ApplyStopAddLists(ctx, sets.download, sets.delete, DOMAIN remote_snap),
        sets.common, local_snap, remote_snap)

\* DiffPlanner._build_sync_plan
BuildSyncPlan(ctx, local_snap, remote_snap) ==
    SyncPlanOfSets(ctx, ComputeSyncNameSets(DOMAIN local_snap, DOMAIN remote_snap),
                   local_snap, remote_snap)

\* variant: the item is emitted for every empty plan
Mut_NothingToDoIgnoresExclusions(plan0, is_valid, report0) ==
    [plan |-> plan0,
     is_valid |-> is_valid,
     report |-> IF plan0.to_download = <<>> /\ plan0.to_delete = <<>>
                THEN <<ReportItem(<<>>, "IMPORTANT_INFO", "nothing to do")>>
                ELSE report0]

\* DiffPlanner.run: the triple returned for a plan, its validity and its report
PlannerResult(plan0, is_valid, report0) ==
    [plan |-> plan0,
     is_valid |-> is_valid,
     report |-> IF is_valid /\ plan0.to_download = <<>> /\ plan0.to_delete = <<>>
                   /\ report0 = <<>>
                THEN <<ReportItem(<<>>, "IMPORTANT_INFO", "nothing to do")>>
                ELSE report0]

\* DiffPlanner.run, from the sync plan on
PlannerResultOf(sp) ==
    PlannerResult(BuildPlan(sp.to_delete, sp.to_download, sp.mismatched),
                  sp.denied_download = {},
                  BuildReport(sp.denied_download))

\* DiffPlanner.run: (plan, is_valid, report)
DiffPlannerRun(ctx, local_snap, remote_snap) ==
    PlannerResultOf(BuildSyncPlan(ctx, local_snap, remote_snap))


(***************************************************************************)
(* Execution gate (INFRA/executiongate.py)                                 *)
(***************************************************************************)
\* the stamp file is missing or unreadable
NoStamp == "<missing>"
\* ExecutionGate._today_stamp: date.today().isoformat()
TodayStamp == "2026-01-29"

\* ExecutionGate.check
ExecutionGateCheck(ctx, stamp_file) ==
    IF ~ctx.once_per_day THEN "RUN"
    ELSE IF stamp_file = NoStamp THEN "RUN"
    ELSE IF stamp_file = TodayStamp THEN "SKIP"
    ELSE "RUN"

(***************************************************************************)
(* Ftp.download_file, seen from its caller (ADAPTERS/ftp.py)                *)
(***************************************************************************)
\* Ftp._local_size
LocalSize(dir, n) == IF n \in Present(dir) THEN Len(dir[n].data) ELSE 0

\* The network delivers "delivered" further bytes of the remote file, starting at
\* the offset requested, over all fetches of this call; "completes" tells whether
\* the last fetch ended normally (then the server has sent the file to its end).
DownloadFile(snapshot, dir, remote_dir, delivered, completes) ==
    LET n == snapshot.name
        local0 == LocalSize(dir, n)
    IN IF snapshot.size = NoSize
       THEN [dir |-> dir, ok |-> FALSE, fetched |-> FALSE, offset |-> 0]
       ELSE IF local0 = snapshot.size
       THEN [dir |-> dir, ok |-> TRUE, fetched |-> FALSE, offset |-> local0]
       ELSE LET offset == IF local0 > snapshot.size THEN 0 ELSE local0
                kept == IF offset > 0 THEN SubSeq(dir[n].data, 1, offset) ELSE <<>>
                rdata == remote_dir[n].data
                upto == IF completes THEN Len(rdata)
                        ELSE IF offset + delivered > Len(rdata) THEN Len(rdata)
                        ELSE offset + delivered
                data == kept \o SubSeq(rdata, offset + 1, upto)
            IN [dir |-> Put(dir, n, File(data)),
                ok |-> completes /\ Len(data) = snapshot.size,
                fetched |-> TRUE, offset |-> offset]

(***************************************************************************)
(* Transfer service (SERVICES/transfer_service.py)                         *)
(***************************************************************************)
NewDirAction == {"CONTINUE", "RESTART", "STOP"}

\* variant: clean_dir leaves the directory as it is
Mut_CleanDirKeeps(dir) == {[dir |-> dir, raised |-> FALSE]}

\* utils.clean_dir: unlinks the files in iteration order and raises at the first
\* entry that is not a file; the files unlinked before it depend on that order
CleanDirOutcomes(dir) ==
    LET files == {n \in Present(dir) : IsFile(dir[n])}
    IN IF files = Present(dir)
       THEN {[dir |-> EmptyDir, raised |-> FALSE]}
       ELSE {[dir |-> [m \in Present(dir) \ D |-> dir[m]], raised |-> TRUE] : D \in SUBSET files}

\* variant: every regular file of NEW is unlinked
Mut_SanitizeUnlinksFiles(dir) ==
    LET keep == {n \in Present(dir) : ~IsFile(dir[n])}
        bad == SortedNames(keep)
    IN [dir |-> [n \in keep |-> dir[n]],
        report |-> [i \in 1..Len(bad) |-> ReportItem(bad[i], "FATAL", "not a file in NEW")]]

\* TransferService._sanitize_new_dir: FATAL for every non-file, zero-length files unlinked
SanitizeNewDir(dir) ==
    LET keep == {n \in Present(dir) : ~(IsFile(dir[n]) /\ Len(dir[n].data) = 0)}
        bad == SortedNames({n \in Present(dir) : ~IsFile(dir[n])})
    IN [dir |-> [n \in keep |-> dir[n]],
        report |-> [i \in 1..Len(bad) |-> ReportItem(bad[i], "FATAL", "not a file in NEW")]]

(***************************************************************************)
(* Validate service (SERVICES/validate_service.py)                         *)
(***************************************************************************)
\* ValidateService.check_size
CheckSize(local, remote, name) ==
    IF local.size # remote.size THEN <<ReportItem(name, "ERROR", "size")>> ELSE <<>>

\* str.casefold on the characters of a digest
CaseFold(c) == IF c = "A" THEN "a" ELSE IF c = "B" THEN "b" ELSE c

\* str.strip
RECURSIVE StripLeft(_)
StripLeft(text) ==
    IF text # <<>> /\ Head(text) = " " THEN StripLeft(Tail(text)) ELSE text

RECURSIVE StripRight(_)
StripRight(text) ==
    IF text # <<>> /\ text[Len(text)] = " "
    THEN StripRight(SubSeq(text, 1, Len(text) - 1)) ELSE text

\* variant: digests are compared as they come
Mut_NormIsIdentity(md5) == md5

\* ValidateService._norm_md5: md5.casefold().strip()
NormMd5(md5) == StripRight(StripLeft([i \in 1..Len(md5) |-> CaseFold(md5[i])]))

\* ValidateService.check_md5_hash
CheckMd5Hash(local, remote, name) ==
    IF ~local.md5_hash.known \/ ~remote.md5_hash.known
    THEN <<ReportItem(name, "ERROR", "md5 missing")>>
    ELSE IF NormMd5(local.md5_hash.digest) # NormMd5(remote.md5_hash.digest)
         THEN <<ReportItem(name, "ERROR", "md5 differs")>>
         ELSE <<>>

RECURSIVE ItemsFor(_, _, _)
ItemsFor(sorted_names, status, comment) ==
    IF sorted_names = <<>> THEN <<>>
    ELSE <<ReportItem(Head(sorted_names), status, comment)>>
         \o ItemsFor(Tail(sorted_names), status, comment)

\* ValidateService.compare_undownloaded_files
CompareUndownloadedFiles(plan_set, new_dir_set) ==
    ItemsFor(SortedNames(plan_set \ new_dir_set), "ERROR", "not downloaded")

\* ValidateService.compare_unnecessary_files
CompareUnnecessaryFiles(plan_set, new_dir_set) ==
    ItemsFor(SortedNames(new_dir_set \ plan_set), "FATAL", "unexpected object in NEW")

RECURSIVE CommonChecks(_, _, _)
CommonChecks(sorted_names, local_snap, remote_snap) ==
    IF sorted_names = <<>> THEN <<>>
    ELSE LET n == Head(sorted_names)
         IN CheckSize(local_snap[n], remote_snap[n], n)
            \o CheckMd5Hash(local_snap[n], remote_snap[n], n)
            \o CommonChecks(Tail(sorted_names), local_snap, remote_snap)

\* ValidateService.run; "raised" is the RuntimeError of compare_common_files_size_and_hash
ValidateRun(plan, new_dir, local_snap, remote_snap) ==
    LET plan_set == SeqNames(plan.to_download)
        new_dir_set == Present(new_dir)
        general == new_dir_set \cap plan_set
        raised == \E n \in general : n \notin DOMAIN local_snap \/ n \notin DOMAIN remote_snap
        result == CompareUndownloadedFiles(plan_set, new_dir_set)
                  \o CompareUnnecessaryFiles(plan_set, new_dir_set)
                  \o (IF raised THEN <<>>
                      ELSE CommonChecks(SortedNames(general), local_snap, remote_snap))
    IN [ok |-> result = <<>>, report |-> result, raised |-> raised]

(***************************************************************************)
(* Repository validator (SERVICES/repository_validator.py)                 *)
(***************************************************************************)
\* pathlib's Path(name).stem: the name up to its last dot, unless that dot is the first
\* or the last character of the name
PathStem(name) ==
    LET d == LastIndexOf(name, ".")
    IN IF 1 < d /\ d < Len(name) THEN SubSeq(name, 1, d - 1) ELSE name

\* str.rpartition("_"): head, separator and tail at the last "_"; without any "_" the
\* head and the separator are empty and the tail is the whole string
RPartition(text) ==
    LET u == LastIndexOf(text, "_")
    IN IF u = 0 THEN <<<<>>, <<>>, text>>
       ELSE <<SubSeq(text, 1, u - 1), <<"_">>, SubSeq(text, u + 1, Len(text))>>

\* RepositoryValidator.get_component_names: the list of the heads of the stems whose
\* tail is made of digits
RECURSIVE GetComponentNames(_)
GetComponentNames(repositiry_files) ==
    IF repositiry_files = <<>> THEN <<>>
    ELSE (IF IsDigitStr(RPartition(PathStem(Head(repositiry_files)))[3])
          THEN <<RPartition(PathStem(Head(repositiry_files)))[1]>> ELSE <<>>)
         \o GetComponentNames(Tail(repositiry_files))

\* how many times a component occurs in the list
Occurrences(component_names, c) ==
    Cardinality({i \in 1..Len(component_names) : component_names[i] = c})

\* variant: every component of the list is counted as repeated
Mut_EveryComponentRepeated(component_names) ==
    [c \in {component_names[i] : i \in 1..Len(component_names)} |->
        Occurrences(component_names, c)]

\* RepositoryValidator.get_dublicate_component: component -> number of occurrences
\* beyond the first, for the components that occur more than once
GetDublicateComponent(component_names) ==
    [c \in {component_names[i] : i \in 1..Len(component_names)
               \ {j \in 1..Len(component_names) : Occurrences(component_names, component_names[j]) < 2}} |->
        Occurrences(component_names, c) - 1]

\* the comment of an item: the number of files of the component
TimesComment(count) ==
    IF count = 2 THEN "present 2 times" ELSE IF count = 3 THEN "present 3 times"
    ELSE "present more than 3 times"

\* RepositoryValidator.output_to_reports: one ERROR item per key of the dictionary, in the
\* order the keys were inserted (the sorted one)
OutputToReports(dublicate_components) ==
    LET keys == SortedNames(DOMAIN dublicate_components)
    IN [i \in 1..Len(keys) |->
           ReportItem(keys[i], "ERROR", TimesComment(dublicate_components[keys[i]] + 1))]

(***************************************************************************)
(* Report service (SERVICES/report_service.py) and the exit code (main.py) *)
(***************************************************************************)
\* ReportService.output_resume: the line printed
OutputResume(valid_commit, report) ==
    IF valid_commit THEN "synchronized" ELSE "errors found"

\* exit_code of the exception classes of GENERAL/errors.py
AppErrors == {"ConnectError", "DownloadFileError", "DownloadDirError", "ConfigError",
              "LocalFileAccessError", "UserAbend", "SkipExecute"}
ExitCodeOfClass(cls) ==
    IF cls = "UserAbend" THEN 130 ELSE IF cls = "SkipExecute" THEN 777 ELSE 1

\* main: the value returned after controller.run() returned ("none") or raised
MainReturns(raised) ==
    IF raised = "none" THEN 0
    ELSE IF raised = "KeyboardInterrupt" THEN 130
    ELSE IF raised \in AppErrors THEN ExitCodeOfClass(raised)
    ELSE 1

(***************************************************************************)
(* One run of SyncController.run                                           *)
(***************************************************************************)
NoName == <<>>
NoPlan == [to_delete |-> <<>>, to_download |-> <<>>]
NoVerdict == [plan |-> FALSE, download |-> FALSE, commit |-> FALSE]
NoCopy == [todo |-> {}, cur |-> NoName]

\* the directories whose files are named in Names and hold one of contents
DirsOver(contents) ==
    UNION {{[n \in S |-> File(c[n])] : c \in [S -> contents]} : S \in SUBSET Names}

OldContents == {OldBytes(k) : k \in 1..MaxSize}
NewContents == {NewBytes(k) : k \in 1..MaxSize}

\* what an earlier, interrupted run may have left in NEW: nothing, a partly
\* downloaded file, a zero-length file, a complete file, a file of an older version
StagingAtStart ==
    {EmptyDir,
     Put(EmptyDir, NameA1, File(NewBytes(1))),
     Put(EmptyDir, NameB, File(<<>>)),
     Put(EmptyDir, NameB, File(OldBytes(1)))}

\* what an earlier commit may have left in OLD
RetiredAtStart == {EmptyDir, Put(EmptyDir, NameB, File(OldBytes(1)))}

Contexts ==
    {[once_per_day |-> o, mode_stop_list |-> m, add_list |-> a, stop_list |-> {ComponentA}] :
        o \in BOOLEAN, m \in {"USE_STOP_LIST", "NOT_USE_STOP_LIST"}, a \in {{}, {NameB}}}

NoHist ==
    [live0 |-> EmptyDir, retired0 |-> EmptyDir, staging0 |-> EmptyDir, stamp0 |-> NoStamp,
     c_live |-> EmptyDir, c_staging |-> EmptyDir, c_retired |-> EmptyDir,
     commit_called |-> FALSE, new_decision |-> "none", old_decision |-> "none",
     faults |-> FALSE, recorded |-> FALSE,
     calls |-> <<>>, full_listing |-> FALSE,
     gate |-> "none", stages |-> <<>>,
     component_names |-> <<>>, repository_report |-> <<>>, summary |-> "none"]

\* a service that is not being called on its own
NoCall == [pc |-> "idle"]

UnitsIdle == dp = NoCall /\ df = NoCall /\ dd = NoCall /\ vs = NoCall /\ eg = NoCall

\* the controller is not running (the state of the run variables while a single
\* protocol call is studied)
RunIdle ==
    /\ run_pc = "idle"
    /\ live = EmptyDir /\ staging = EmptyDir /\ retired = EmptyDir /\ ftp_dir = EmptyDir
    /\ stamp = NoStamp
    /\ runtime_context = [once_per_day |-> FALSE, mode_stop_list |-> "NOT_USE_STOP_LIST",
              add_list |-> {}, stop_list |-> {}]
    /\ plan_before = NoPlan /\ verdict = NoVerdict
    /\ general_report = <<>> /\ transfer_report = <<>>
    /\ idx = 0 /\ copy = NoCopy /\ exit = "none" /\ hist = NoHist

\* no protocol call is being studied
FtpIdle ==
    /\ fc_pc = "idle" /\ fc_repeat = 1 /\ fc_iter = 0
    /\ fc_cur = NoError /\ fc_recon = NoError /\ fc_last_error = NoError
    /\ fc_outcome = NoOutcome /\ fc_trace = <<>>

\* a single protocol call is studied, the controller is not running
FtpInit == FtpCallStart /\ RunIdle /\ UnitsIdle

FtpNext ==
    \/ ActionReturns
    \/ ActionRaises
    \/ HandleTemporaryFtpError
    \/ SleepRetryDelay
    \/ RetriesExhausted

SpecFtpCall == FtpInit /\ [][FtpNext]_vars

Init ==
    /\ FtpIdle
    /\ UnitsIdle
    /\ run_pc = "start"
    /\ live \in DirsOver(OldContents)
    /\ ftp_dir \in DirsOver(NewContents)
    /\ staging \in StagingAtStart
    /\ retired \in RetiredAtStart
    /\ runtime_context \in Contexts
    /\ stamp \in (IF runtime_context.once_per_day THEN {NoStamp, TodayStamp} ELSE {NoStamp})
    /\ plan_before = NoPlan /\ verdict = NoVerdict
    /\ general_report = <<>> /\ transfer_report = <<>>
    /\ idx = 0 /\ copy = NoCopy /\ exit = "none"
    /\ hist = [NoHist EXCEPT !.live0 = live, !.retired0 = retired,
                             !.staging0 = staging, !.stamp0 = stamp]

\* an exception leaves SyncController.run
Raise(kind) == run_pc' = "aborted" /\ exit' = kind

\* variant: the run goes on whatever the gate answers
Mut_SkipIgnored(choice) == "plan"

\* run: "if execution_gate.check(...) == SKIP: return"
AfterGate(choice) == IF choice = "SKIP" THEN "skipped" ELSE "plan"

\* the stages of the run, in the order of the statements of SyncController.run
PlanStages == <<"local_lite_snapshot", "remote_lite_snapshot", "planner">>

\* variant: the full snapshots are taken after the validator ran
Mut_ValidatorBeforeSnapshots == <<"validator", "staging_full_snapshot", "remote_full_snapshot">>

ValidateStages == <<"staging_full_snapshot", "remote_full_snapshot", "validator">>
ReportStages == <<"repository_validator", "report">>

\* run: execution_gate.check(...) == SKIP -> return
RunGateCheck ==
    /\ run_pc = "start"
    /\ \E choice \in {ExecutionGateCheck(runtime_context, stamp)} :
          /\ run_pc' = AfterGate(choice)
          /\ hist' = [hist EXCEPT !.gate = choice, !.stages = Append(@, "gate_check")]
    /\ UNCHANGED <<live, staging, retired, ftp_dir, stamp, runtime_context, plan_before, verdict,
                   general_report, transfer_report, idx, copy, exit>>
    /\ UNCHANGED ftpVars
    /\ UNCHANGED unitVars

\* run: _get_lite_snapshots and diff_planner.run; listing the remote directory may fail
RunPlan ==
    /\ run_pc = "plan"
    /\ \E fault \in BOOLEAN :
         IF fault
         THEN /\ Raise("DownloadDirError")
              /\ hist' = [hist EXCEPT !.faults = TRUE,
                                      !.stages = @ \o SubSeq(PlanStages, 1, 2)]
              /\ UNCHANGED <<plan_before, verdict, general_report>>
         ELSE \E r \in {DiffPlannerRun(runtime_context,
                           LocalSnapshot(live, "LITE_MODE", FALSE, {}),
                           RemoteSnapshot(ftp_dir, "LITE_MODE", FALSE, {}))} :
                 /\ plan_before' = r.plan
                 /\ verdict' = [verdict EXCEPT !.plan = r.is_valid]
                 /\ general_report' = general_report \o r.report
                 /\ run_pc' = "transfer"
                 /\ hist' = [hist EXCEPT !.stages = @ \o PlanStages]
                 /\ UNCHANGED exit
    /\ UNCHANGED <<live, staging, retired, ftp_dir, stamp, runtime_context, transfer_report, idx, copy>>
    /\ UNCHANGED ftpVars
    /\ UNCHANGED unitVars

\* variant: the operator's refusal leaves no item in the report
Mut_StopReportsNothing == <<>>

\* _ensure_new_and_old_dirs_are_ready, case NewDirAction.STOP: the item appended
StopReport == <<ReportItem(NoName, "ERROR", "operator refused")>>

\* TransferService.run up to the download loop:
\* _ensure_new_and_old_dirs_are_ready and _sanitize_new_dir
TransferPrepare ==
    /\ run_pc = "transfer"
    /\ \E action \in NewDirAction, cn \in CleanDirOutcomes(staging), co \in CleanDirOutcomes(retired) :
         /\ (staging = EmptyDir) => (action = "CONTINUE")
         /\ hist' = [hist EXCEPT !.new_decision = IF staging = EmptyDir THEN "none" ELSE action,
                                 !.stages = Append(@, "transfer")]
         /\ IF action = "STOP"
            THEN /\ transfer_report' = StopReport
                 /\ run_pc' = "transfer_return"
                 /\ UNCHANGED <<staging, retired, exit>>
            ELSE IF action = "RESTART"
            THEN IF cn.raised
                 THEN /\ staging' = cn.dir
                      /\ Raise("LocalFileAccessError")
                      /\ UNCHANGED <<retired, transfer_report>>
                 ELSE IF co.raised
                 THEN /\ staging' = cn.dir
                      /\ retired' = co.dir
                      /\ Raise("LocalFileAccessError")
                      /\ UNCHANGED transfer_report
                 ELSE /\ staging' = SanitizeNewDir(cn.dir).dir
                      /\ retired' = co.dir
                      /\ transfer_report' = SanitizeNewDir(cn.dir).report
                      /\ run_pc' = "download"
                      /\ UNCHANGED exit
            ELSE /\ staging' = SanitizeNewDir(staging).dir
                 /\ transfer_report' = SanitizeNewDir(staging).report
                 /\ run_pc' = "download"
                 /\ UNCHANGED <<retired, exit>>
    /\ idx' = 1
    /\ UNCHANGED <<live, ftp_dir, stamp, runtime_context, plan_before, verdict, general_report, copy>>
    /\ UNCHANGED ftpVars
    /\ UNCHANGED unitVars

\* an entry of a directory that is not a regular file
Folder == [kind |-> "dir", data |-> <<>>]

\* a call of ftp.download_file as the transfer saw it
DownloadCall(snapshot, offset, fetched, error) ==
    [name |-> snapshot.name, size |-> snapshot.size,
     offset |-> offset, fetched |-> fetched, ok |-> (error = "None"), error |-> error]

\* variant: a failed download leaves no item in the report
Mut_FailureNotReported(report, snapshot, ok) == report

\* _download_file_from_snapshot: except DownloadFileError -> self.report.append(ERROR)
DownloadReport(report, snapshot, ok) ==
    IF ok THEN report
    ELSE Append(report, ReportItem(snapshot.name, "ERROR", "not downloaded"))

\* _download_file_from_snapshot for the next snapshot of the plan
DownloadNext ==
    /\ run_pc = "download"
    /\ idx <= Len(plan_before.to_download)
    /\ \E snapshot \in {plan_before.to_download[idx]} :
         IF snapshot.name \in Present(staging) /\ ~IsFile(staging[snapshot.name])
         THEN \* the path is not a regular file: its st_size is what the platform says, so
              \* download_file returns at once (sizes agree), or fails to unlink it
              \* (LocalFileAccessError) or to open it (OSError), which nothing catches
              \E outcome \in {"returns", "LocalFileAccessError", "OSError"} :
                 /\ (snapshot.size = NoSize) => (outcome = "returns")
                 /\ IF outcome = "returns"
                    THEN /\ transfer_report' =
                               DownloadReport(transfer_report, snapshot, snapshot.size # NoSize)
                         /\ hist' = [hist EXCEPT !.calls =
                               Append(@, DownloadCall(snapshot, 0, FALSE,
                                   IF snapshot.size # NoSize THEN "None"
                                   ELSE "DownloadFileError"))]
                         /\ idx' = idx + 1
                         /\ UNCHANGED <<run_pc, exit>>
                    ELSE /\ Raise(outcome)
                         /\ hist' = [hist EXCEPT !.calls =
                               Append(@, DownloadCall(snapshot, 0, FALSE, outcome))]
                         /\ UNCHANGED <<transfer_report, idx>>
                 /\ UNCHANGED staging
         ELSE \E delivered \in 0..MaxSize, completes \in BOOLEAN :
              \E r \in {DownloadFile(snapshot, staging, ftp_dir, delivered, completes)} :
                 \* outcomes of the network are told apart only where a fetch happens
                 /\ (~r.fetched) => (delivered = 0 /\ completes)
                 /\ r.fetched => (delivered <= snapshot.size - r.offset)
                 /\ completes => (delivered = 0)
                 /\ staging' = r.dir
                 /\ transfer_report' = DownloadReport(transfer_report, snapshot, r.ok)
                 /\ hist' = [hist EXCEPT !.faults = @ \/ ~completes,
                                         !.calls = Append(@, DownloadCall(snapshot, r.offset, r.fetched,
                                                   IF r.ok THEN "None"
                                                   ELSE "DownloadFileError"))]
                 /\ idx' = idx + 1
                 /\ UNCHANGED <<run_pc, exit>>
    /\ UNCHANGED <<live, retired, ftp_dir, stamp, runtime_context, plan_before, verdict,
                   general_report, copy>>
    /\ UNCHANGED ftpVars
    /\ UNCHANGED unitVars

\* TransferService.run returns (not report, report); run adds the report
TransferReturn ==
    /\ \/ run_pc = "transfer_return"
       \/ run_pc = "download" /\ idx > Len(plan_before.to_download)
    /\ verdict' = [verdict EXCEPT !.download = (transfer_report = <<>>)]
    /\ general_report' = general_report \o transfer_report
    /\ run_pc' = "validate"
    /\ UNCHANGED <<live, staging, retired, ftp_dir, stamp, runtime_context, plan_before,
                   transfer_report, idx, copy, exit, hist>>
    /\ UNCHANGED ftpVars
    /\ UNCHANGED unitVars

\* variant: the commit does not look at the result of the transfer
Mut_CommitIgnoresDownload(is_validate_plan, is_validate_download, is_validate_commit) ==
    is_validate_plan /\ is_validate_commit

\* the condition under which _validate_commit_execution_gate calls the commit
CommitAllowed(is_validate_plan, is_validate_download, is_validate_commit) ==
    (is_validate_plan /\ is_validate_download) /\ is_validate_commit

\* run: _get_full_snapshots_only_for; _validate_commit_execution_gate: validate_service.run
\* and the decision to commit
ValidateStage ==
    /\ run_pc = "validate"
    /\ \E only_for \in {SeqNames(plan_before.to_download)} :
       \E v \in {ValidateRun(plan_before, staging,
                            LocalSnapshot(staging, "FULL_MODE", TRUE, only_for),
                            RemoteSnapshot(ftp_dir, "FULL_MODE", TRUE, only_for))} :
          IF v.raised
          THEN /\ Raise("RuntimeError")
               /\ UNCHANGED <<verdict, general_report>>
          ELSE /\ verdict' = [verdict EXCEPT !.commit = v.ok]
               /\ general_report' = general_report \o v.report
               /\ run_pc' = IF CommitAllowed(verdict.plan, verdict.download, v.ok)
                            THEN "commit" ELSE "record_run"
               /\ UNCHANGED exit
    /\ hist' = [hist EXCEPT !.full_listing = TRUE, !.stages = @ \o ValidateStages]
    /\ UNCHANGED <<live, staging, retired, ftp_dir, stamp, runtime_context, plan_before,
                   transfer_report, idx, copy>>
    /\ UNCHANGED ftpVars
    /\ UNCHANGED unitVars

(***************************************************************************)
(* SaveService.commit_keep_new_old_dirs, step by step                      *)
(***************************************************************************)
OldDirAction == {"DELETE", "CONTINUE", "STOP"}

\* variant: the directory is cleaned whatever the operator answers
Mut_CleanBeforeAsking(dir, action) ==
    {[dir |-> o.dir,
      raised |-> IF action = "STOP" THEN "UserAbend"
                 ELSE IF o.raised THEN "LocalFileAccessError" ELSE "none"] :
         o \in CleanDirOutcomes(dir)}

\* SaveService.sure_empty_directory for a non-empty directory, after the operator
\* chose action: what is left in the directory and what is raised
SureEmptyOutcomes(dir, action) ==
    IF action = "STOP"
    THEN {[dir |-> dir, raised |-> "UserAbend"]}
    ELSE {[dir |-> o.dir, raised |-> IF o.raised THEN "LocalFileAccessError" ELSE "none"] :
             o \in CleanDirOutcomes(dir)}

\* _safe_copy_file: to_full_path.with_name(f".tmp-{uuid4().hex}-{name}")
TmpPrefix == <<".", "t", "m", "p", "-">>
TmpName(n) == TmpPrefix \o <<"0", "-">> \o n
IsTmpName(n) == Len(n) >= Len(TmpPrefix) /\ SubSeq(n, 1, Len(TmpPrefix)) = TmpPrefix

\* variant: shutil.copy2 writes straight onto the final name
Mut_CopyOntoFinalName(n) == n

\* the name shutil.copy2 writes to
CopyTarget(n) == TmpName(n)

\* variant: the file is copied to its target and stays where it was
Mut_ReplaceKeepsSource(from_dir, n) == from_dir

\* Path.replace, seen from the directory the file leaves
PathReplaceFrom(from_dir, n) == Remove(from_dir, n)

\* _move_files: sure_empty_directory(to_dir)
SureEmptyDirectory ==
    /\ run_pc = "commit"
    /\ \E action \in OldDirAction :
         /\ (retired = EmptyDir) => (action = "DELETE")
         /\ hist' = [hist EXCEPT !.commit_called = TRUE, !.stages = Append(@, "commit"),
                                 !.c_live = live, !.c_staging = staging, !.c_retired = retired,
                                 !.old_decision = IF retired = EmptyDir THEN "none" ELSE action]
         /\ \E o \in SureEmptyOutcomes(retired, action) :
              /\ retired' = o.dir
              /\ IF o.raised = "none"
                 THEN run_pc' = "move" /\ UNCHANGED exit
                 ELSE Raise(o.raised)
    /\ idx' = 1
    /\ UNCHANGED <<live, staging, ftp_dir, stamp, runtime_context, plan_before, verdict,
                   general_report, transfer_report, copy>>
    /\ UNCHANGED ftpVars
    /\ UNCHANGED unitVars

\* _replace_files: _replace_file for the next snapshot of data.delete
ReplaceFile ==
    /\ run_pc = "move"
    /\ idx <= Len(plan_before.to_delete)
    /\ LET n == plan_before.to_delete[idx].name
       IN IF n \in Present(live) /\ IsFile(live[n])
          THEN /\ live' = PathReplaceFrom(live, n)
               /\ retired' = Put(retired, n, live[n])
               /\ idx' = idx + 1
               /\ UNCHANGED <<run_pc, exit>>
          ELSE /\ Raise("LocalFileAccessError")
               /\ UNCHANGED <<live, retired, idx>>
    /\ UNCHANGED <<staging, ftp_dir, stamp, runtime_context, plan_before, verdict,
                   general_report, transfer_report, copy, hist>>
    /\ UNCHANGED ftpVars
    /\ UNCHANGED unitVars

\* _copy_files: from_dir.iterdir()
CopyFilesBegin ==
    /\ run_pc = "move"
    /\ idx > Len(plan_before.to_delete)
    /\ copy' = [todo |-> Present(staging), cur |-> NoName]
    /\ run_pc' = "copy"
    /\ UNCHANGED <<live, staging, retired, ftp_dir, stamp, runtime_context, plan_before, verdict,
                   general_report, transfer_report, idx, exit, hist>>
    /\ UNCHANGED ftpVars
    /\ UNCHANGED unitVars

\* _safe_copy_file: _enshure_is_file, then shutil.copy2 opens its target
SafeCopyBegin ==
    /\ run_pc = "copy"
    /\ copy.cur = NoName
    /\ \E n \in copy.todo :
         IF IsFile(staging[n])
         THEN /\ live' = Put(live, CopyTarget(n), File(<<>>))
              /\ copy' = [copy EXCEPT !.cur = n]
              /\ UNCHANGED <<run_pc, exit>>
         ELSE /\ Raise("LocalFileAccessError")
              /\ UNCHANGED <<live, copy>>
    /\ UNCHANGED <<staging, retired, ftp_dir, stamp, runtime_context, plan_before, verdict,
                   general_report, transfer_report, idx, hist>>
    /\ UNCHANGED ftpVars
    /\ UNCHANGED unitVars

\* shutil.copy2 writes the next byte of the staged file
SafeCopyWrite ==
    /\ run_pc = "copy"
    /\ copy.cur # NoName
    /\ LET t == CopyTarget(copy.cur)
           k == Len(live[t].data)
       IN /\ k < Len(staging[copy.cur].data)
          /\ live' = Put(live, t, File(Append(live[t].data, staging[copy.cur].data[k + 1])))
    /\ UNCHANGED <<run_pc, staging, retired, ftp_dir, stamp, runtime_context, plan_before, verdict,
                   general_report, transfer_report, idx, copy, exit, hist>>
    /\ UNCHANGED ftpVars
    /\ UNCHANGED unitVars

\* tmp.replace(to_full_path)
SafeCopyRename ==
    /\ run_pc = "copy"
    /\ copy.cur # NoName
    /\ LET t == CopyTarget(copy.cur)
       IN /\ Len(live[t].data) = Len(staging[copy.cur].data)
          /\ live' = Put(Remove(live, t), copy.cur, live[t])
    /\ copy' = [todo |-> copy.todo \ {copy.cur}, cur |-> NoName]
    /\ UNCHANGED <<run_pc, staging, retired, ftp_dir, stamp, runtime_context, plan_before, verdict,
                   general_report, transfer_report, idx, exit, hist>>
    /\ UNCHANGED ftpVars
    /\ UNCHANGED unitVars

\* commit_keep_new_old_dirs returns its report
CommitReport(count_old_files, count_new_files) ==
    (IF count_old_files # 0 THEN <<ReportItem(NoName, "INFO", "moved to OLD")>> ELSE <<>>)
    \o (IF count_new_files # 0 THEN <<ReportItem(NoName, "INFO", "copied from NEW")>> ELSE <<>>)

CopyFilesDone ==
    /\ run_pc = "copy"
    /\ copy.cur = NoName
    /\ copy.todo = {}
    /\ general_report' = general_report
           \o CommitReport(Len(plan_before.to_delete), Cardinality(Present(staging)))
    /\ run_pc' = "record_run"
    /\ UNCHANGED <<live, staging, retired, ftp_dir, stamp, runtime_context, plan_before, verdict,
                   transfer_report, idx, copy, exit, hist>>
    /\ UNCHANGED ftpVars
    /\ UNCHANGED unitVars

\* an operation of the file system fails during _replace_files or _copy_files;
\* the "finally" of _safe_copy_file unlinks the temporary file
CommitFails ==
    /\ run_pc \in {"move", "copy"}
    /\ live' = IF run_pc = "copy" /\ copy.cur # NoName /\ CopyTarget(copy.cur) \in Present(live)
               THEN Remove(live, CopyTarget(copy.cur)) ELSE live
    /\ Raise("LocalFileAccessError")
    /\ hist' = [hist EXCEPT !.faults = TRUE]
    /\ UNCHANGED <<staging, retired, ftp_dir, stamp, runtime_context, plan_before, verdict,
                   general_report, transfer_report, idx, copy>>
    /\ UNCHANGED ftpVars
    /\ UNCHANGED unitVars

\* the process is killed (or the machine stops) during _replace_files or _copy_files
ProcessKilled ==
    /\ run_pc \in {"move", "copy"}
    /\ run_pc' = "crashed"
    /\ exit' = "killed"
    /\ hist' = [hist EXCEPT !.faults = TRUE]
    /\ UNCHANGED <<live, staging, retired, ftp_dir, stamp, runtime_context, plan_before, verdict,
                   general_report, transfer_report, idx, copy>>
    /\ UNCHANGED ftpVars
    /\ UNCHANGED unitVars

\* _validate_commit_execution_gate: execution_gate.record_run(ctx); a failure to
\* write the stamp is logged and swallowed
RecordRun ==
    /\ run_pc = "record_run"
    /\ \E written \in BOOLEAN :
         stamp' = IF written THEN TodayStamp ELSE stamp
    /\ hist' = [hist EXCEPT !.recorded = TRUE, !.stages = Append(@, "record_run")]
    /\ run_pc' = "report"
    /\ UNCHANGED <<live, staging, retired, ftp_dir, runtime_context, plan_before, verdict,
                   general_report, transfer_report, idx, copy, exit>>
    /\ UNCHANGED ftpVars
    /\ UNCHANGED unitVars

\* run: the names of the files of the local directory, repository_validator.run on
\* them, and put_report with all([is_validate_plan, is_validate_commit, is_validate_download])
PutReport ==
    /\ run_pc = "report"
    /\ \E local_files_names \in {SortedNames({n \in Present(live) : IsFile(live[n])})} :
       \E components \in {GetComponentNames(local_files_names)} :
       \E found \in {OutputToReports(GetDublicateComponent(components))} :
          /\ general_report' = general_report \o found
          /\ hist' = [hist EXCEPT
                 !.stages = @ \o ReportStages,
                 !.component_names = components,
                 !.repository_report = found,
                 !.summary = OutputResume(verdict.plan /\ verdict.commit /\ verdict.download,
                                          general_report \o found)]
    /\ run_pc' = "done"
    /\ UNCHANGED <<live, staging, retired, ftp_dir, stamp, runtime_context, plan_before, verdict,
                   transfer_report, idx, copy, exit>>
    /\ UNCHANGED ftpVars
    /\ UNCHANGED unitVars

CommitNext ==
    \/ SureEmptyDirectory
    \/ ReplaceFile
    \/ CopyFilesBegin
    \/ SafeCopyBegin
    \/ SafeCopyWrite
    \/ SafeCopyRename
    \/ CopyFilesDone
    \/ CommitFails
    \/ ProcessKilled

Next ==
    \/ RunGateCheck
    \/ RunPlan
    \/ TransferPrepare
    \/ DownloadNext
    \/ TransferReturn
    \/ ValidateStage
    \/ SureEmptyDirectory
    \/ ReplaceFile
    \/ CopyFilesBegin
    \/ SafeCopyBegin
    \/ SafeCopyWrite
    \/ SafeCopyRename
    \/ CopyFilesDone
    \/ CommitFails
    \/ ProcessKilled
    \/ RecordRun
    \/ PutReport

Spec == Init /\ [][Next]_vars

(***************************************************************************)
(* The commit on its own: SaveService.commit_keep_new_old_dirs called with *)
(* any list of files to retire, on any three directories                   *)
(***************************************************************************)
MaxDelete == 2

\* data.delete: snapshots of at most MaxDelete names, repetitions included
DeleteLists ==
    UNION {[1..k -> {FileSnapshot(n, NoSize, NoHash) : n \in Names}] : k \in 0..MaxDelete}

CommitInit ==
    /\ FtpIdle
    /\ UnitsIdle
    /\ run_pc = "commit"
    /\ live \in DirsOver(OldContents)
    /\ staging \in DirsOver(NewContents)
    /\ retired \in RetiredAtStart
    /\ ftp_dir = EmptyDir
    /\ stamp = NoStamp
    /\ runtime_context = [once_per_day |-> FALSE, mode_stop_list |-> "NOT_USE_STOP_LIST",
                          add_list |-> {}, stop_list |-> {}]
    /\ plan_before \in {[to_delete |-> d, to_download |-> <<>>] : d \in DeleteLists}
    /\ verdict = [plan |-> TRUE, download |-> TRUE, commit |-> TRUE]
    /\ general_report = <<>> /\ transfer_report = <<>>
    /\ idx = 0 /\ copy = NoCopy /\ exit = "none"
    /\ hist = [NoHist EXCEPT !.live0 = live, !.retired0 = retired, !.staging0 = staging]

SpecCommit == CommitInit /\ [][CommitNext]_vars

(***************************************************************************)
(* The transfer on its own: TransferService.run called with any plan       *)
(***************************************************************************)
\* what NEW may hold when the transfer starts: per name nothing, a zero-length file,
\* a file of one byte or of MaxSize bytes of the new version, or a folder
StagingEntries == {File(<<>>), File(NewBytes(1)), File(NewBytes(MaxSize)), Folder}

TransferStagingAtStart ==
    UNION {[S -> StagingEntries] : S \in SUBSET Names}

\* what OLD may hold: nothing, a retired file, or a folder
TransferRetiredAtStart == RetiredAtStart \cup {Put(EmptyDir, NameA1, Folder)}

\* snapshots_for_loading: snapshots of files of the server, in name order, each with the
\* size the listing gave or with no size
LoadingLists(remote_dir) ==
    UNION {{[i \in 1..Len(SortedNames(S)) |->
                FileSnapshot(SortedNames(S)[i], sz[SortedNames(S)[i]], NoHash)] :
               sz \in {f \in [S -> (0..MaxSize) \cup {NoSize}] :
                          \A n \in S : f[n] \in {Len(remote_dir[n].data), NoSize}}} :
           S \in SUBSET Present(remote_dir)}

TransferInit ==
    /\ FtpIdle
    /\ UnitsIdle
    /\ run_pc = "transfer"
    /\ live = EmptyDir
    /\ ftp_dir \in DirsOver(NewContents)
    /\ staging \in TransferStagingAtStart
    /\ retired \in TransferRetiredAtStart
    /\ stamp = NoStamp
    /\ runtime_context = [once_per_day |-> FALSE, mode_stop_list |-> "NOT_USE_STOP_LIST",
                          add_list |-> {}, stop_list |-> {}]
    /\ \E loading \in LoadingLists(ftp_dir) :
          plan_before = [to_delete |-> <<>>, to_download |-> loading]
    /\ verdict = [NoVerdict EXCEPT !.plan = TRUE]
    /\ general_report = <<>> /\ transfer_report = <<>>
    /\ idx = 0 /\ copy = NoCopy /\ exit = "none"
    /\ hist = [NoHist EXCEPT !.retired0 = retired, !.staging0 = staging]

TransferNext == TransferPrepare \/ DownloadNext \/ TransferReturn

SpecTransfer == TransferInit /\ [][TransferNext]_vars

(***************************************************************************)
(* The validator on its own: ValidateService.run called on any input       *)
(***************************************************************************)
\* md5_hash of a snapshot handed to the validator: None, a digest, the same digest in
\* upper case with a blank after it, another digest
ValidatorHashes == {NoHash, Hash(<<"a">>), Hash(<<"A", " ">>), Hash(<<"b">>)}

ValidatorSnapshots ==
    UNION {{[n \in S |-> FileSnapshot(n, f[n][1], f[n][2])] :
               f \in [S -> (1..MaxSize) \X ValidatorHashes]} : S \in SUBSET Names}

\* a plan whose download list names the files of S, in name order
PlanToDownload(S) ==
    [to_delete |-> <<>>,
     to_download |-> [i \in 1..Len(SortedNames(S)) |->
                         FileSnapshot(SortedNames(S)[i], 1, NoHash)]]

ValidatorInit ==
    /\ FtpIdle
    /\ RunIdle
    /\ dp = NoCall /\ df = NoCall /\ dd = NoCall /\ eg = NoCall
    /\ \E P \in SUBSET Names, D \in SUBSET Names :
          vs \in [pc : {"called"}, plan : {PlanToDownload(P)},
                  new_dir : {[n \in D |-> File(<<>>)]},
                  local_snap : ValidatorSnapshots, remote_snap : ValidatorSnapshots,
                  out : {NoCall}]

\* ValidateService.run(ValidateInput(plan, new_dir, local_snap, remote_snap))
ValidateServiceCalled ==
    /\ vs.pc = "called"
    /\ \E out \in {ValidateRun(vs.plan, vs.new_dir, vs.local_snap, vs.remote_snap)} :
          vs' = [vs EXCEPT !.pc = IF out.raised THEN "raised" ELSE "returned",
                           !.out = out]
    /\ UNCHANGED <<ftpVars, runVars, dp, df, dd, eg>>

ValidatorNext == ValidateServiceCalled

SpecValidator == ValidatorInit /\ [][ValidatorNext]_vars

(***************************************************************************)
(* The execution gate on its own: check and record_run called over days    *)
(***************************************************************************)
MaxDay == 2
MaxGateCalls == 3

\* date.today().isoformat() on the days of the model, and a date that is never today
IsoDates == <<"2026-01-29", "2026-01-30", "2026-01-31", "2026-02-01">>
IsoFormat(day) == <<IsoDates[day]>>
AnotherDate == <<"2025-12-31">>

\* the stamp file: missing, not readable (PermissionError, OSError), holding bytes that
\* are not text in the encoding of the locale, or holding text
StampMissing == [kind |-> "missing", text |-> <<>>]
StampUnreadable == [kind |-> "unreadable", text |-> <<>>]
StampUndecodable == [kind |-> "undecodable", text |-> <<>>]
StampText(text) == [kind |-> "text", text |-> text]

StampFilesAtStart ==
    {StampMissing, StampUnreadable, StampUndecodable,
     StampText(<<>>), StampText(<<"garbage">>), StampText(AnotherDate),
     StampText(IsoFormat(1)), StampText(IsoFormat(1) \o <<" ">>)}

\* ExecutionGate.check: what it returns or raises, for the file as it is. read_text()
\* decodes with the encoding of the locale: bytes that are not text raise
\* UnicodeDecodeError (a ValueError, which check does not catch) or, in an encoding that
\* maps every byte, come out as some text that is not a date
CheckOutcomes(once_per_day, file, today) ==
    IF ~once_per_day THEN {"RUN"}
    ELSE IF file.kind \in {"missing", "unreadable"} THEN {"RUN"}
    ELSE IF file.kind = "undecodable" THEN {"UnicodeDecodeError", "RUN"}
    ELSE IF StripRight(StripLeft(file.text)) = today THEN {"SKIP"}
    ELSE {"RUN"}

\* ExecutionGate.record_run: the file after it; write_text opens the file for writing,
\* which empties it, and then writes: a failure leaves the file as it was (mkdir or open
\* failed) or empty (the write failed), and is logged, not raised
RecordRunOutcomes(file, today) ==
    {[file |-> StampText(StripRight(StripLeft(today))), written |-> TRUE],
     [file |-> file, written |-> FALSE],
     [file |-> StampText(<<>>), written |-> FALSE]}

GateInit ==
    /\ FtpIdle
    /\ RunIdle
    /\ dp = NoCall /\ df = NoCall /\ dd = NoCall /\ vs = NoCall
    /\ \E file \in StampFilesAtStart :
          eg = [pc |-> "ready", day |-> 1, file |-> file, calls |-> <<>>]

\* execution_gate.check(ctx)
GateCheck ==
    /\ eg.pc = "ready"
    /\ Len(eg.calls) < MaxGateCalls
    /\ \E once_per_day \in BOOLEAN :
       \E result \in CheckOutcomes(once_per_day, eg.file, IsoFormat(eg.day)) :
          eg' = [eg EXCEPT !.calls = Append(@,
                    [op |-> "check", day |-> eg.day, once_per_day |-> once_per_day,
                     before |-> eg.file, after |-> eg.file, result |-> result])]
    /\ UNCHANGED <<ftpVars, runVars, dp, df, dd, vs>>

\* execution_gate.record_run(ctx)
GateRecordRun ==
    /\ eg.pc = "ready"
    /\ Len(eg.calls) < MaxGateCalls
    /\ \E o \in RecordRunOutcomes(eg.file, IsoFormat(eg.day)) :
          eg' = [eg EXCEPT !.file = o.file,
                           !.calls = Append(@,
                    [op |-> "record_run", day |-> eg.day, once_per_day |-> FALSE,
                     before |-> eg.file, after |-> o.file,
                     result |-> IF o.written THEN "written" ELSE "logged"])]
    /\ UNCHANGED <<ftpVars, runVars, dp, df, dd, vs>>

\* midnight passes
GateNextDay ==
    /\ eg.pc = "ready"
    /\ eg.day < MaxDay
    /\ eg' = [eg EXCEPT !.day = @ + 1]
    /\ UNCHANGED <<ftpVars, runVars, dp, df, dd, vs>>

GateNext == GateCheck \/ GateRecordRun \/ GateNextDay

SpecGate == GateInit /\ [][GateNext]_vars

(***************************************************************************)
(* The end of the run on its own: repository_validator.run and put_report  *)
(* called on any local directory and any outcome of the earlier stages     *)
(***************************************************************************)
NameA2 == <<"a", "_", "2", ".", "z">>
NameA1T == <<"a", "_", "1", ".", "t">>
NameA == <<"a", ".", "z">>
Name1 == <<"1", ".", "z">>
Name2 == <<"2", ".", "z">>
RepoNames == {NameA1, NameA2, NameA1T, NameA, NameB, Name1, Name2}

\* the local directory: files of these names, a_2.z possibly being a folder
RepoDirs ==
    UNION {{[n \in S |-> IF n = NameA2 /\ folder THEN Folder ELSE File(OldBytes(1))] :
               folder \in BOOLEAN} : S \in SUBSET RepoNames}

\* general_report as the stages before leave it: the planner adds WARNING items exactly
\* when the plan is not valid, the transfer adds its items exactly when the download is
\* not valid, the validator adds ERROR or FATAL items exactly when its check fails, and
\* otherwise there are only INFO and IMPORTANT_INFO items
ReportsBefore(v) ==
    {(IF v.plan THEN <<>> ELSE <<ReportItem(NameA1, "WARNING", "stop list")>>)
     \o (IF v.download THEN <<>> ELSE <<ReportItem(NameB, "ERROR", "download failed")>>)
     \o bad \o good :
        bad \in (IF v.commit THEN {<<>>}
                 ELSE {<<ReportItem(NameB, "ERROR", "not downloaded")>>,
                       <<ReportItem(NameB, "FATAL", "unexpected object in NEW")>>}),
        good \in (IF v.plan /\ v.download /\ v.commit
                  THEN {<<>>, CommitReport(1, 1),
                        <<ReportItem(<<>>, "IMPORTANT_INFO", "nothing to do")>>}
                  ELSE {<<>>})}

ReportInit ==
    /\ FtpIdle
    /\ UnitsIdle
    /\ run_pc = "report"
    /\ live \in RepoDirs
    /\ staging = EmptyDir /\ retired = EmptyDir /\ ftp_dir = EmptyDir
    /\ stamp = TodayStamp
    /\ runtime_context = [once_per_day |-> FALSE, mode_stop_list |-> "NOT_USE_STOP_LIST",
                          add_list |-> {}, stop_list |-> {}]
    /\ plan_before = NoPlan
    /\ verdict \in [plan : BOOLEAN, download : BOOLEAN, commit : BOOLEAN]
    /\ general_report \in ReportsBefore(verdict)
    /\ transfer_report = <<>>
    /\ idx = 0 /\ copy = NoCopy /\ exit = "none"
    /\ hist = [NoHist EXCEPT !.live0 = live, !.recorded = TRUE]

ReportNext == PutReport

SpecReport == ReportInit /\ [][ReportNext]_vars

(***************************************************************************)
(* The planner on its own: DiffPlanner.run called on any two snapshots     *)
(***************************************************************************)
\* md5_hash of a snapshot: None, or one of two digests
SnapshotHashes == {NoHash, Md5(OldBytes(1)), Md5(NewBytes(1))}

\* the snapshots of the files named in Names, of every size and hash
Snapshots ==
    UNION {{[n \in S |-> FileSnapshot(n, f[n][1], f[n][2])] :
               f \in [S -> (1..MaxSize) \X SnapshotHashes]} : S \in SUBSET Names}

PlannerInit ==
    /\ FtpIdle
    /\ RunIdle
    /\ df = NoCall /\ dd = NoCall /\ vs = NoCall /\ eg = NoCall
    /\ dp \in [pc : {"called"}, context : {c \in Contexts : ~c.once_per_day},
               local_snap : Snapshots, remote_snap : Snapshots, out : {NoCall}]

\* DiffPlanner.run(DiffInput(context, local_snap, remote_snap))
DiffPlannerCalled ==
    /\ dp.pc = "called"
    /\ dp' = [dp EXCEPT !.pc = "returned",
                        !.out = DiffPlannerRun(dp.context, dp.local_snap, dp.remote_snap)]
    /\ UNCHANGED <<ftpVars, runVars, df, dd, vs, eg>>

PlannerNext == DiffPlannerCalled

SpecPlanner == PlannerInit /\ [][PlannerNext]_vars

(***************************************************************************)
(* Ftp.download_file on its own: one call, fetch by fetch                  *)
(***************************************************************************)
\* a local path: whether it exists and the bytes it holds
NoPath == [exists |-> FALSE, data |-> <<>>]
PathOf(data) == [exists |-> TRUE, data |-> data]

\* Ftp._local_size
PathSize(path) == IF path.exists THEN Len(path.data) ELSE 0

\* Ftp._safe_size
SafeSize(size) == IF size = NoSize THEN 0 ELSE size

\* Ftp._calc_offset
CalcOffset(path, expected_size) ==
    IF ~path.exists THEN 0
    ELSE IF Len(path.data) > expected_size THEN 0 ELSE Len(path.data)

\* variant: the file is always opened for writing from scratch
Mut_OpenModeAlwaysWrite(offset) == "wb"

\* Ftp._download_attempt: mode = "ab" if offset else "wb"
OpenMode(offset) == IF offset # 0 THEN "ab" ELSE "wb"

\* open(local_full_path, mode): "wb" creates or truncates, "ab" creates or keeps
OpenPath(path, mode) == IF mode = "wb" THEN PathOf(<<>>) ELSE PathOf(path.data)

\* Ftp._retrbinary_with_resume: f.seek(0, os.SEEK_END); rest = f.tell()
RetrRest(path) == Len(path.data)

\* the bytes a RETR with REST = rest can deliver from the file on the server
Deliverable(remote_data, rest) ==
    IF rest >= Len(remote_data) THEN 0 ELSE Len(remote_data) - rest

NoFetches == <<>>

\* the call entered: Ftp._download_attempt opens the file and enters _ftp_call
EnterAttempt(call, path, offset, phase) ==
    [call EXCEPT !.pc = "fetch",
                 !.local = OpenPath(path, OpenMode(offset)),
                 !.offset = offset,
                 !.mode = OpenMode(offset),
                 !.seen = PathSize(path),
                 !.opened = TRUE,
                 !.phase = phase,
                 !.iter = 0]

DownloadFileInit ==
    /\ FtpIdle
    /\ RunIdle
    /\ dp = NoCall /\ dd = NoCall /\ vs = NoCall /\ eg = NoCall
    /\ \E size \in (1..MaxSize) \cup {NoSize}, j \in 0..(MaxSize + 1),
          k \in 1..(MaxSize + 1), repeat \in 1..MaxRepeat, exists \in BOOLEAN :
          df = [pc |-> "called",
                size |-> size,
                initial |-> IF exists THEN PathOf(OldBytes(j)) ELSE NoPath,
                local |-> IF exists THEN PathOf(OldBytes(j)) ELSE NoPath,
                remote_data |-> NewBytes(k),
                repeat |-> repeat,
                offset |-> 0, mode |-> "none", seen |-> 0, opened |-> FALSE,
                phase |-> 0, iter |-> 0,
                fetches |-> NoFetches,
                error |-> "None"]

\* Ftp.download_file up to the call of _download_file_with_resume
DfBegin ==
    /\ df.pc = "called"
    /\ \/ /\ df.size = NoSize
          /\ df' = [df EXCEPT !.pc = "raised", !.error = "DownloadFileError"]
       \/ /\ df.size # NoSize
          /\ PathSize(df.local) = df.size
          /\ df' = [df EXCEPT !.pc = "returned"]
       \/ /\ df.size # NoSize
          /\ PathSize(df.local) > SafeSize(df.size)
          /\ \/ df' = [EnterAttempt(df, NoPath, 0, 1) EXCEPT !.seen = PathSize(df.local)]
             \/ df' = [df EXCEPT !.pc = "raised", !.error = "LocalFileAccessError"]
       \/ /\ df.size # NoSize
          /\ PathSize(df.local) < df.size
          /\ df' = EnterAttempt(df, df.local, PathSize(df.local), 1)
    /\ UNCHANGED <<ftpVars, runVars, dp, dd, vs, eg>>

\* one iteration of the loop of Ftp._ftp_call around _retrbinary_with_resume: the RETR
\* delivers some bytes into the open file and then completes or fails (the reconnect and
\* the delay after a transient fault are those of HandleTemporaryFtpError); a fetch is
\* recorded with the offset asked for, the length of the open file, the length the local
\* file had when the fetch was decided on (seen) and the mode the file was opened in
DfFetch ==
    /\ df.pc = "fetch"
    /\ df.iter < df.repeat
    /\ \E rest \in {RetrRest(df.local)} :
       \E delivered \in 0..Deliverable(df.remote_data, rest),
          result \in {"ok", "transient", "permanent"} :
          /\ (result = "ok") => (delivered = Deliverable(df.remote_data, rest))
          /\ \E after \in {[df EXCEPT
                   !.local = PathOf(df.local.data
                                    \o SubSeq(df.remote_data, rest + 1, rest + delivered)),
                   !.opened = FALSE,
                   !.seen = Len(df.local.data) + delivered,
                   !.iter = df.iter + 1,
                   !.fetches = Append(df.fetches,
                                  [offset |-> rest, length |-> Len(df.local.data),
                                   seen |-> df.seen, mode |-> df.mode,
                                   opened |-> df.opened, phase |-> df.phase,
                                   result |-> result])]} :
             df' = IF result = "ok" THEN [after EXCEPT !.pc = "check"]
                   ELSE IF result = "transient" /\ after.iter < df.repeat THEN after
                   ELSE IF df.phase = 1 THEN [after EXCEPT !.pc = "resume"]
                   ELSE [after EXCEPT !.pc = "raised", !.error = "DownloadFileError"]
    /\ UNCHANGED <<ftpVars, runVars, dp, dd, vs, eg>>

\* Ftp._try_resume_after_failure, called on the DownloadFileError of the first attempt
DfTryResume ==
    /\ df.pc = "resume"
    /\ \E offset \in {CalcOffset(df.local, df.size)} :
          df' = IF df.size = NoSize \/ offset <= 0
                THEN [df EXCEPT !.pc = "raised", !.error = "DownloadFileError"]
                ELSE EnterAttempt(df, df.local, offset, 2)
    /\ UNCHANGED <<ftpVars, runVars, dp, dd, vs, eg>>

\* Ftp.download_file after _download_file_with_resume has returned
DfFinalCheck ==
    /\ df.pc = "check"
    /\ df' = IF PathSize(df.local) = df.size
             THEN [df EXCEPT !.pc = "returned"]
             ELSE [df EXCEPT !.pc = "raised", !.error = "DownloadFileError"]
    /\ UNCHANGED <<ftpVars, runVars, dp, dd, vs, eg>>

DownloadFileNext == DfBegin \/ DfFetch \/ DfTryResume \/ DfFinalCheck

SpecDownloadFile == DownloadFileInit /\ [][DownloadFileNext]_vars

(***************************************************************************)
(* Ftp.download_dir on its own: one call, command by command               *)
(***************************************************************************)
\* what a command sent to the server ends in: a reply, a fault of TEMP_EXCEPTIONS,
\* or another fault of ftplib.all_errors
CommandResults == {"ok", "transient", "permanent"}

\* a command as the server saw it: which attempt of its _ftp_call sent it (1 for a command
\* sent outside _ftp_call) and whether _ftp_call was around it
CommandSent(cmd, attempt, wrapped, result) ==
    [cmd |-> cmd, attempt |-> attempt, wrapped |-> wrapped, result |-> result]

DownloadDirInit ==
    /\ FtpIdle
    /\ RunIdle
    /\ dp = NoCall /\ df = NoCall /\ vs = NoCall /\ eg = NoCall
    /\ \E repeat \in 1..MaxRepeat, hash_mode \in {"LITE_MODE", "FULL_MODE"},
          has_file \in BOOLEAN :
          dd = [pc |-> "cwd", repeat |-> repeat, hash_mode |-> hash_mode,
                has_file |-> has_file, iter |-> 0, raw_items |-> "none",
                commands |-> <<>>, error |-> "None"]

\* one iteration of Ftp._ftp_call around a command under err_cls = DownloadDirError
FtpCallStep(call, cmd, result, next_pc) ==
    LET sent == [call EXCEPT !.iter = call.iter + 1,
                             !.commands = Append(call.commands,
                                              CommandSent(cmd, call.iter + 1, TRUE, result))]
    IN IF result = "ok" THEN [sent EXCEPT !.pc = next_pc, !.iter = 0]
       ELSE IF result = "transient" /\ sent.iter < call.repeat THEN sent
       ELSE [sent EXCEPT !.pc = "raised", !.error = "DownloadDirError"]

\* Ftp._safe_cwd_ftp
DdSafeCwd ==
    /\ dd.pc = "cwd"
    /\ \E result \in CommandResults : dd' = FtpCallStep(dd, "CWD", result, "mlsd")
    /\ UNCHANGED <<ftpVars, runVars, dp, df, vs, eg>>

\* Ftp._safe_mlsd: the action of _ftp_call is self.ftp.mlsd(), a generator function of
\* ftplib; calling it sends nothing and returns the generator
DdSafeMlsd ==
    /\ dd.pc = "mlsd"
    /\ dd' = [dd EXCEPT !.pc = "items", !.raw_items = "generator"]
    /\ UNCHANGED <<ftpVars, runVars, dp, df, vs, eg>>

\* Ftp._build_dir_items: the first step of "for name, facts in raw_items" runs the
\* generator, which sends MLSD and reads the whole listing; any fault of all_errors is
\* raised as ConnectError
DdBuildDirItems ==
    /\ dd.pc = "items"
    /\ \E result \in CommandResults :
          \E sent \in {[dd EXCEPT !.raw_items = "consumed",
                          !.commands = Append(dd.commands,
                                           CommandSent("MLSD", 1, FALSE, result))]} :
             dd' = IF result # "ok"
                   THEN [sent EXCEPT !.pc = "raised", !.error = "ConnectError"]
                   ELSE IF dd.has_file /\ dd.hash_mode = "FULL_MODE"
                   THEN [sent EXCEPT !.pc = "xmd5"]
                   ELSE [sent EXCEPT !.pc = "returned"]
    /\ UNCHANGED <<ftpVars, runVars, dp, df, vs, eg>>

\* Ftp._get_hmd5 for the file of the listing, in FULL_MODE
DdGetHmd5 ==
    /\ dd.pc = "xmd5"
    /\ \E result \in CommandResults : dd' = FtpCallStep(dd, "XMD5", result, "returned")
    /\ UNCHANGED <<ftpVars, runVars, dp, df, vs, eg>>

DownloadDirNext == DdSafeCwd \/ DdSafeMlsd \/ DdBuildDirItems \/ DdGetHmd5

SpecDownloadDir == DownloadDirInit /\ [][DownloadDirNext]_vars

(***************************************************************************)
(* Properties of the run (checked under Spec) and of the commit (checked   *)
(* under SpecCommit)                                                       *)
(***************************************************************************)
AllValid == verdict.plan /\ verdict.download /\ verdict.commit

\* names of data.delete
Deleted == SeqNames(plan_before.to_delete)

\* every file of dir is a file of base, with the same content
Within(dir, base) == \A n \in Present(dir) : n \in Present(base) /\ dir[n] = base[n]

\* C1: the commit is called only if the planner said is_valid, the transfer said success
\* and the validator said ok; while one of the three is false, no file has left the live
\* directory for the retired one and no staged file has been copied into the live directory.
C1_CommitOnlyIfAllValid ==
    /\ hist.commit_called => AllValid
    /\ (~AllValid) => (live = hist.live0 /\ Within(retired, hist.retired0))

\* a finished run whose plan and validation were good but whose transfer reported failure,
\* with files waiting in staging: nothing was committed
C1_Witness ==
    /\ run_pc = "done"
    /\ verdict.plan /\ verdict.commit /\ ~verdict.download
    /\ staging # EmptyDir
    /\ ~hist.commit_called
    /\ live = hist.live0

\* C2 as stated: from the start of the commit on, whatever step it is interrupted at, every
\* file that was in the live directory before the commit and is meant to be there after it
\* (it is not retired, or a staged version replaces it) is present in the live directory
\* with its complete old or its complete staged content.
C2_LiveNeverInconsistent ==
    hist.commit_called =>
        \A n \in Present(hist.c_live) :
            (n \notin Deleted \/ n \in Present(hist.c_staging)) =>
                /\ n \in Present(live)
                /\ \/ live[n] = hist.c_live[n]
                   \/ n \in Present(hist.c_staging) /\ live[n] = hist.c_staging[n]

\* C3: during the copy every staged file is written under a temporary name and renamed when
\* complete; every file of the live directory under a final name holds its complete content
\* from before the commit or the complete staged content, also after a crash or an error.
C3_NoPartialFinalFile ==
    hist.commit_called =>
        /\ \A n \in Present(live) :
              (~IsTmpName(n)) =>
                  \/ n \in Present(hist.c_live) /\ live[n] = hist.c_live[n]
                  \/ n \in Present(staging) /\ live[n] = staging[n]
        /\ (run_pc = "copy" /\ copy.cur # NoName) =>
              /\ IsTmpName(CopyTarget(copy.cur))
              /\ CopyTarget(copy.cur) \in Present(live)

\* the process was killed while a staged file was partly written under its temporary name,
\* the old version still being in place under the final name
C3_Witness ==
    /\ run_pc = "crashed"
    /\ copy.cur # NoName
    /\ TmpName(copy.cur) \in Present(live)
    /\ Len(live[TmpName(copy.cur)].data) > 0
    /\ Len(live[TmpName(copy.cur)].data) < Len(staging[copy.cur].data)
    /\ copy.cur \in Present(live)
    /\ live[copy.cur] = hist.c_live[copy.cur]

\* C4: when the retired directory is not empty at the commit, nothing of it is deleted and
\* no live file is moved unless the operator has decided DELETE or CONTINUE; on STOP the
\* commit ends with UserAbend and the three directories are as they were.
C4_DecisionBeforeTouching ==
    (hist.commit_called /\ hist.c_retired # EmptyDir) =>
        /\ (retired # hist.c_retired \/ live # hist.c_live) =>
               hist.old_decision \in {"DELETE", "CONTINUE"}
        /\ (hist.old_decision = "STOP") =>
               /\ run_pc = "aborted" /\ exit = "UserAbend"
               /\ live = hist.c_live /\ staging = hist.c_staging /\ retired = hist.c_retired

\* the operator answered STOP on a non-empty retired directory, with files to retire pending
C4_Witness ==
    /\ hist.commit_called
    /\ hist.old_decision = "STOP"
    /\ exit = "UserAbend"
    /\ retired # EmptyDir
    /\ plan_before.to_delete # <<>>

\* C5: after a commit that completed without error, every file named in to_delete is in the
\* retired directory with its content from before the commit and has left the live
\* directory unless a staged file of that name replaced it; every staged file is in the live
\* directory under its name with the staged content; every other live file is unchanged and
\* the live directory holds nothing else.
C5_CommitResult ==
    (hist.commit_called /\ run_pc = "record_run") =>
        /\ \A n \in Deleted :
              /\ n \in Present(retired) /\ retired[n] = hist.c_live[n]
              /\ n \notin Present(hist.c_staging) => n \notin Present(live)
        /\ \A n \in Present(hist.c_staging) :
              n \in Present(live) /\ live[n] = hist.c_staging[n]
        /\ \A n \in Present(hist.c_live) \ (Deleted \cup Present(hist.c_staging)) :
              n \in Present(live) /\ live[n] = hist.c_live[n]
        /\ Present(live) = (Present(hist.c_live) \ Deleted) \cup Present(hist.c_staging)

\* a completed commit that retired one file for good, replaced another by its staged
\* version, or left a third kind alone: here, a name both retired and staged, next to a
\* live file that is neither
C5_Witness ==
    /\ hist.commit_called /\ run_pc = "record_run"
    /\ \E n \in Deleted \cap Present(hist.c_staging) :
          live[n] = hist.c_staging[n] /\ retired[n] = hist.c_live[n] /\ live[n] # retired[n]
    /\ \E m \in Present(hist.c_live) \ (Deleted \cup Present(hist.c_staging)) :
          live[m] = hist.c_live[m]

\* C6 as stated: in a run where the plan is invalid, a download failed or the validation
\* failed, the stamp file is left as it was at the start of the run.
C6_StampOnlyAfterCommit ==
    (run_pc \in {"report", "done"} /\ ~AllValid) => stamp = hist.stamp0

\* name -> size of the files of a directory
SizeMap(dir) == [n \in Present(dir) |-> Len(dir[n].data)]

\* the run C7 speaks of: nothing in staging and retired at start, empty add-list, stop-list
\* filtering off, no transport fault, no operator abort
C7_Premise ==
    /\ hist.staging0 = EmptyDir /\ hist.retired0 = EmptyDir
    /\ runtime_context.add_list = {}
    /\ runtime_context.mode_stop_list = "NOT_USE_STOP_LIST"
    /\ ~hist.faults
    /\ hist.new_decision # "STOP" /\ hist.old_decision # "STOP"

\* C7 as stated: such a run ends with the live directory's name -> size map equal to the
\* remote one.
C7_SynchronizationReached ==
    (run_pc = "done" /\ C7_Premise) => SizeMap(live) = SizeMap(ftp_dir)

\* C20 as stated: when the transfer has returned success, the staging directory holds
\* exactly the planned downloads, each with the size the server reported.
C20_StagingIsThePlan ==
    (run_pc = "validate" /\ verdict.download) =>
        /\ Present(staging) = SeqNames(plan_before.to_download)
        /\ \A i \in 1..Len(plan_before.to_download) :
               LocalSize(staging, plan_before.to_download[i].name)
                   = plan_before.to_download[i].size

\* C22 as stated: after the operator's STOP at the prompt for NEW the run touches the
\* network no more (no listing of the server, no hash query, no download) and makes no
\* commit.
C22_StopEndsTheRun ==
    (hist.new_decision = "STOP") =>
        /\ ~hist.full_listing
        /\ hist.calls = <<>>
        /\ ~hist.commit_called

(***************************************************************************)
(* Properties of the whole run: gate, order of the stages, exit code       *)
(* (checked under Spec)                                                    *)
(***************************************************************************)
\* the stages of a run in which everything succeeds
StageOrder ==
    <<"gate_check", "local_lite_snapshot", "remote_lite_snapshot", "planner", "transfer",
      "staging_full_snapshot", "remote_full_snapshot", "validator", "commit", "record_run",
      "repository_validator", "report">>

IsPrefix(s, t) == Len(s) <= Len(t) /\ s = SubSeq(t, 1, Len(s))

\* the commit was not called although the run went past it
CommitSkipped == run_pc \in {"record_run", "report", "done"} /\ ~hist.commit_called

\* C31: when the gate's check returns SKIP the run ends at once: no snapshot, planner,
\* transfer, validator or commit, no change to the live, staging or retired directory,
\* no record_run, no report.
C31_SkipEndsTheRun ==
    (hist.gate = "SKIP") =>
        /\ run_pc = "skipped" /\ exit = "none"
        /\ hist.stages = <<"gate_check">>
        /\ live = hist.live0 /\ staging = hist.staging0 /\ retired = hist.retired0
        /\ stamp = hist.stamp0 /\ ~hist.recorded
        /\ plan_before = NoPlan /\ hist.calls = <<>> /\ ~hist.full_listing
        /\ ~hist.commit_called
        /\ general_report = <<>> /\ hist.summary = "none"

\* the gate answered SKIP with files waiting in the staging directory
C31_Witness ==
    /\ hist.gate = "SKIP"
    /\ run_pc = "skipped"
    /\ staging # EmptyDir /\ live # EmptyDir /\ ftp_dir # EmptyDir

\* C32: when the gate returns RUN and every stage succeeds the stages run one after
\* another in the order gate check, local lite snapshot, remote lite snapshot, planner,
\* transfer, staging full snapshot, remote full snapshot, validator, commit, record_run,
\* repository validator, report; until a stage fails the stages run are a prefix of it.
C32_StageOrder ==
    /\ (run_pc = "done" /\ AllValid) => (hist.stages = StageOrder)
    /\ (hist.gate # "none" /\ ~CommitSkipped) => IsPrefix(hist.stages, StageOrder)

\* a run that downloaded and retired files ended with every stage valid
C32_Witness ==
    /\ run_pc = "done" /\ AllValid
    /\ hist.stages = StageOrder
    /\ plan_before.to_download # <<>> /\ plan_before.to_delete # <<>>

\* the exit code of the process once the run returned or raised
RunEnded == run_pc \in {"done", "skipped", "aborted"}
ProcessExitCode == MainReturns(IF run_pc = "aborted" THEN exit ELSE "none")

\* the classes of failure that the claim tells apart
FailureClass(raised) ==
    IF raised \in {"ConnectError", "DownloadDirError"} THEN "connection or listing"
    ELSE IF raised = "LocalFileAccessError" THEN "local file access"
    ELSE IF raised \in AppErrors \cup {"KeyboardInterrupt"} THEN "other"
    ELSE "unclassified"

FailuresOfTheRun == {"DownloadDirError", "LocalFileAccessError", "RuntimeError", "OSError"}

\* C35 as stated: the exit code is 0 only for a successful run (not when a download
\* failed, the validation failed or the plan was invalid), and connection/listing
\* failures, local file access failures and unclassified failures end with non-zero codes
\* that differ from one another.
C35_ExitCodes ==
    /\ (run_pc = "done" /\ ProcessExitCode = 0) => AllValid
    /\ (run_pc = "aborted") =>
           /\ ProcessExitCode # 0
           /\ \A other \in FailuresOfTheRun :
                  (FailureClass(other) # FailureClass(exit)
                   /\ FailureClass(other) # "other" /\ FailureClass(exit) # "other") =>
                      MainReturns(other) # ProcessExitCode

\* a run ended with a failed download
C35_Witness ==
    /\ run_pc = "done"
    /\ verdict.plan /\ ~verdict.download

\* C39 as stated: a successful commit leaves the staging directory empty, so that the
\* next run starts with an empty staging directory.
C39_CommitEmptiesStaging ==
    (hist.commit_called /\ run_pc \in {"record_run", "report", "done"}) =>
        staging = EmptyDir

\* a commit of downloaded files succeeded and the run ended
C39_Witness ==
    /\ hist.commit_called /\ run_pc = "done"
    /\ hist.c_staging # EmptyDir
    /\ \A n \in Present(hist.c_staging) : n \in Present(live)

(***************************************************************************)
(* Properties of the repository validator and of the summary (checked      *)
(* under SpecReport)                                                       *)
(***************************************************************************)
\* the names handed to the repository validator
LocalFilesNames == {n \in Present(live) : IsFile(live[n])}

\* the component keys the validator derives from one file name (none or one)
ValidatorKeys(n) == {GetComponentNames(<<n>>)[i] : i \in 1..Len(GetComponentNames(<<n>>))}
DerivedFrom(c) == {n \in LocalFilesNames : c \in ValidatorKeys(n)}
AllValidatorKeys == UNION {ValidatorKeys(n) : n \in LocalFilesNames}
RepositoryItems(c) ==
    {i \in 1..Len(hist.repository_report) : hist.repository_report[i].name = c}

\* C33: the repository validator returns exactly one ERROR item for each component key
\* derived from more than one file name and none for a key derived from one; two files of
\* one key are always reported and one file per key gives an empty report.
C33_OneErrorPerRepeatedKey ==
    (run_pc = "done") =>
        /\ \A i \in 1..Len(hist.repository_report) :
               /\ hist.repository_report[i].status = "ERROR"
               /\ hist.repository_report[i].name \in AllValidatorKeys
        /\ \A c \in AllValidatorKeys :
               Cardinality(RepositoryItems(c)) =
                   (IF Cardinality(DerivedFrom(c)) > 1 THEN 1 ELSE 0)

\* three files of one key next to a file that is the only one of its key
C33_Witness ==
    /\ run_pc = "done"
    /\ \E c \in AllValidatorKeys : Cardinality(DerivedFrom(c)) = 3
    /\ \E c \in AllValidatorKeys : Cardinality(DerivedFrom(c)) = 1
    /\ Len(hist.repository_report) = 1

\* C34 as stated: the key the repository validator derives from a file name is the key
\* name_file_to_name_component derives from it (trailing _<digits> of the stem stripped,
\* extension kept, a name without such a suffix being its own key), so that two names are
\* duplicates for the validator exactly when they share that key.
C34_SameKeyAsStopList ==
    (run_pc = "done") =>
        /\ \A n \in LocalFilesNames : ValidatorKeys(n) = {NameFileToNameComponent(n)}
        /\ \A n, m \in LocalFilesNames :
               (n # m) =>
                   ((ValidatorKeys(n) \cap ValidatorKeys(m) # {})
                    <=> (NameFileToNameComponent(n) = NameFileToNameComponent(m)))

\* the validator ran on a directory that holds a versioned file name
C34_Witness ==
    /\ run_pc = "done"
    /\ NameA1 \in LocalFilesNames

\* C40 as stated: the summary says "synchronized" only if the final report holds no ERROR
\* and no FATAL item of any stage, those of the repository validator included.
C40_SummaryFollowsReport ==
    (run_pc = "done" /\ hist.summary = "synchronized") =>
        \A i \in 1..Len(general_report) : general_report[i].status \notin {"ERROR", "FATAL"}

\* the repository validator found a repeated component after valid stages
C40_Witness ==
    /\ run_pc = "done"
    /\ verdict.plan /\ verdict.download /\ verdict.commit
    /\ hist.repository_report # <<>>

(***************************************************************************)
(* Properties of the transfer (checked under SpecTransfer)                 *)
(***************************************************************************)
Calls == hist.calls
Loading == plan_before.to_download
TransferReturned == run_pc = "validate"
\* the call is the first one made for its file
FirstCallFor(i) == \A j \in 1..(i - 1) : Calls[j].name # Calls[i].name
\* the file a call is about lay in NEW before the transfer, partly downloaded
PartialAtStart(c) ==
    /\ c.name \in Present(hist.staging0)
    /\ IsFile(hist.staging0[c.name])
    /\ c.size # NoSize
    /\ 0 < Len(hist.staging0[c.name].data)
    /\ Len(hist.staging0[c.name].data) < c.size
\* download_file raised DownloadFileError
CallFailed(c) == c.error = "DownloadFileError"
IsDownloadError(item) == item.status = "ERROR" /\ item.name # NoName

\* C21: with NEW not empty and the decision STOP the transfer fails at once: it returns
\* success = false and a non-empty report, calls download_file for no file and leaves
\* every entry of NEW and OLD as it was.
C21_StopIsTerminalFailure ==
    (hist.new_decision = "STOP") =>
        /\ run_pc \in {"transfer_return", "validate"}
        /\ Calls = <<>>
        /\ staging = hist.staging0 /\ retired = hist.retired0
        /\ transfer_report # <<>>
        /\ TransferReturned => ~verdict.download

C21_Witness ==
    /\ hist.new_decision = "STOP"
    /\ TransferReturned
    /\ Loading # <<>>
    /\ retired # EmptyDir
    /\ ~verdict.download

C24_ContinueResumes ==
    (hist.new_decision = "CONTINUE" /\ run_pc \in {"download", "validate"}) =>
        /\ \A i \in 1..Len(Loading) :
              \E c \in {DownloadCall(Loading[i], 0, FALSE, "None")} :
                 PartialAtStart(c) =>
                    /\ c.name \in Present(staging)
                    /\ IsFile(staging[c.name])
                    /\ SubSeq(staging[c.name].data, 1, Len(hist.staging0[c.name].data))
                           = hist.staging0[c.name].data
        /\ \A i \in 1..Len(Calls) :
              (FirstCallFor(i) /\ PartialAtStart(Calls[i])) =>
                 (Calls[i].fetched
                  /\ Calls[i].offset = Len(hist.staging0[Calls[i].name].data))

C24_Witness ==
    /\ hist.new_decision = "CONTINUE"
    /\ TransferReturned
    /\ verdict.download
    /\ \E i \in 1..Len(Calls) :
          /\ PartialAtStart(Calls[i])
          /\ Calls[i].offset = 1 /\ Calls[i].ok
          /\ Len(staging[Calls[i].name].data) = Calls[i].size

\* C25 as stated: once the sanitizing of NEW has found an entry that is not a regular
\* file (a FATAL item), no planned file is downloaded.
C25_FatalAbortsStage ==
    (\E k \in 1..Len(transfer_report) : transfer_report[k].status = "FATAL") =>
        (Calls = <<>>)

ValidatorFinished == vs.pc \in {"returned", "raised"}
PlanSet == SeqNames(vs.plan.to_download)
NewDirSet == Present(vs.new_dir)
\* the report the caller receives: none when the validator raised
Reported == IF vs.pc = "returned" THEN vs.out.report ELSE <<>>
ReportedFor(n, status) ==
    {i \in 1..Len(Reported) : Reported[i].name = n /\ Reported[i].status = status}
\* the fresh snapshots of a file agree: both there, same size, both hashes there and equal
\* up to case and surrounding blanks
SnapshotsAgree(n) ==
    /\ n \in DOMAIN vs.local_snap /\ n \in DOMAIN vs.remote_snap
    /\ vs.local_snap[n].size = vs.remote_snap[n].size
    /\ vs.local_snap[n].md5_hash.known /\ vs.remote_snap[n].md5_hash.known
    /\ NormMd5(vs.local_snap[n].md5_hash.digest) = NormMd5(vs.remote_snap[n].md5_hash.digest)

\* C27 as stated: the validator reports one ERROR for each name of the download list that
\* is not in NEW and one FATAL for each entry of NEW that is not in the list, and returns
\* ok = true exactly when its report is empty.
C27_PlanAgainstStaging ==
    ValidatorFinished =>
        /\ \A n \in PlanSet \ NewDirSet : Cardinality(ReportedFor(n, "ERROR")) = 1
        /\ \A n \in NewDirSet \ PlanSet : Cardinality(ReportedFor(n, "FATAL")) = 1
        /\ (vs.pc = "returned") => (vs.out.ok <=> (vs.out.report = <<>>))

\* C28 as stated: for a name both in the download list and in NEW the validator returns a
\* report, with an ERROR for the name if the fresh snapshots differ in size or hash or lack
\* the hash or the entry on either side, and with nothing for it if they agree.
C28_CommonFilesChecked ==
    ValidatorFinished =>
        \A n \in PlanSet \cap NewDirSet :
            /\ vs.pc = "returned"
            /\ (~SnapshotsAgree(n)) => (ReportedFor(n, "ERROR") # {})
            /\ SnapshotsAgree(n) =>
                   (\A i \in 1..Len(Reported) : Reported[i].name # n)

(***************************************************************************)
(* Properties of the execution gate (checked under SpecGate)               *)
(***************************************************************************)
GateCalls == eg.calls
GateCallIndexes == 1..Len(eg.calls)
\* the stamp file is readable and holds the date, blanks around it aside
HoldsDate(file, day) ==
    file.kind = "text" /\ StripRight(StripLeft(file.text)) = IsoFormat(day)

\* C29 as stated: check returns SKIP exactly when once_per_day is on and the stamp file is
\* readable and holds today's date; in every other case (option off, stamp missing,
\* unreadable, holding another date or garbage) it returns RUN; it never changes the file.
C29_CheckDecision ==
    (eg.pc # "idle") =>
        \A i \in GateCallIndexes :
            (GateCalls[i].op = "check") =>
                /\ GateCalls[i].result =
                       (IF GateCalls[i].once_per_day
                           /\ HoldsDate(GateCalls[i].before, GateCalls[i].day)
                        THEN "SKIP" ELSE "RUN")
                /\ GateCalls[i].after = GateCalls[i].before

\* check was called on a stamp file whose bytes are not text
C29_Witness ==
    \E i \in GateCallIndexes :
        /\ GateCalls[i].op = "check" /\ GateCalls[i].once_per_day
        /\ GateCalls[i].before.kind = "undecodable"

\* C30 as stated: after a record_run whose write succeeded every check with once_per_day
\* on the same day returns SKIP, whatever calls come in between, and the first check on a
\* later day returns RUN.
C30_OncePerDay ==
    (eg.pc # "idle") =>
        \A i \in GateCallIndexes : \A j \in GateCallIndexes :
            (i < j /\ GateCalls[i].result = "written"
             /\ GateCalls[j].op = "check" /\ GateCalls[j].once_per_day) =>
                /\ (GateCalls[j].day = GateCalls[i].day) => (GateCalls[j].result = "SKIP")
                /\ (GateCalls[j].day > GateCalls[i].day
                    /\ \A k \in GateCallIndexes :
                          (i < k /\ k < j) => (GateCalls[k].day = GateCalls[i].day)) =>
                       (GateCalls[j].result = "RUN")

\* a write succeeded, a later record_run of the same day failed, and check was called
C30_Witness ==
    \E i \in GateCallIndexes : \E k \in GateCallIndexes : \E j \in GateCallIndexes :
        /\ i < k /\ k < j
        /\ GateCalls[i].result = "written" /\ GateCalls[k].result = "logged"
        /\ GateCalls[j].op = "check" /\ GateCalls[j].once_per_day
        /\ GateCalls[j].day = GateCalls[i].day

(***************************************************************************)
(* Properties of the planner (checked under SpecPlanner)                   *)
(***************************************************************************)
PlannerReturned == dp.pc = "returned"
LocalNames == DOMAIN dp.local_snap
RemoteNames == DOMAIN dp.remote_snap
\* names in both snapshots whose sizes differ
SizeDrift ==
    {n \in LocalNames \cap RemoteNames : dp.local_snap[n].size # dp.remote_snap[n].size}
PlannedDownloads == SeqNames(dp.out.plan.to_download)
PlannedDeletes == SeqNames(dp.out.plan.to_delete)
ItemsOf(status) == {i \in 1..Len(dp.out.report) : dp.out.report[i].status = status}
StopListed(n) ==
    dp.context.mode_stop_list = "USE_STOP_LIST"
    /\ NameFileToNameComponent(n) \in dp.context.stop_list

\* C15 as stated: with an empty add-list and stop-list filtering off, the names to download
\* are the remote-only names and the names to delete are the local-only names, each united
\* with the names whose sizes differ.
C15_PlanIsSetDifference ==
    (PlannerReturned /\ dp.context.add_list = {}
     /\ dp.context.mode_stop_list = "NOT_USE_STOP_LIST") =>
        /\ PlannedDownloads = (RemoteNames \ LocalNames) \cup SizeDrift
        /\ PlannedDeletes = (LocalNames \ RemoteNames) \cup SizeDrift

\* C16: a name in both snapshots is planned by its sizes alone: in to_delete and in
\* to_download if they differ; in neither if they are equal and the name is not add-listed.
C16_CommonNamesBySize ==
    PlannerReturned =>
        \A n \in LocalNames \cap RemoteNames :
            /\ (n \in SizeDrift) => (n \in PlannedDeletes /\ n \in PlannedDownloads)
            /\ (n \notin SizeDrift /\ n \notin dp.context.add_list) =>
                   (n \notin PlannedDeletes /\ n \notin PlannedDownloads)

\* one common name of equal sizes and different hashes is left alone while another, whose
\* sizes differ, is planned both ways
C16_Witness ==
    /\ PlannerReturned
    /\ dp.context.add_list = {}
    /\ \E n \in LocalNames \cap RemoteNames :
          /\ n \notin SizeDrift
          /\ dp.local_snap[n].md5_hash.known /\ dp.remote_snap[n].md5_hash.known
          /\ dp.local_snap[n].md5_hash # dp.remote_snap[n].md5_hash
          /\ n \notin PlannedDeletes \cup PlannedDownloads
    /\ \E m \in SizeDrift : m \in PlannedDeletes \cap PlannedDownloads

\* C17: in stop-list mode a remote-only file whose component is stop-listed is not in
\* to_download, and exactly one WARNING item of the report names it.
C17_StopListExclusion ==
    (PlannerReturned /\ dp.context.mode_stop_list = "USE_STOP_LIST") =>
        \A n \in RemoteNames \ LocalNames :
            (NameFileToNameComponent(n) \in dp.context.stop_list) =>
                /\ n \notin PlannedDownloads
                /\ Cardinality({i \in ItemsOf("WARNING") : dp.out.report[i].name = n}) = 1

\* a_1.z, of the stop-listed component a.z, is excluded while b.z is planned
C17_Witness ==
    /\ PlannerReturned
    /\ dp.context.mode_stop_list = "USE_STOP_LIST"
    /\ NameA1 \in RemoteNames \ LocalNames
    /\ NameB \in RemoteNames \ LocalNames
    /\ NameA1 \notin PlannedDownloads
    /\ NameB \in PlannedDownloads
    /\ ~dp.out.is_valid

\* C18: the IMPORTANT_INFO item is in the report exactly when to_delete and to_download are
\* empty and nothing was excluded; it is then the whole report and is_valid is true; two
\* snapshots of the same names and sizes give an empty plan and that item alone.
C18_NothingToDo ==
    PlannerReturned =>
        /\ (ItemsOf("IMPORTANT_INFO") # {}) <=>
               (dp.out.plan.to_download = <<>> /\ dp.out.plan.to_delete = <<>>
                /\ dp.out.is_valid /\ ItemsOf("WARNING") = {})
        /\ (ItemsOf("IMPORTANT_INFO") # {}) =>
               (Len(dp.out.report) = 1 /\ dp.out.is_valid)
        /\ (LocalNames = RemoteNames /\ SizeDrift = {}) =>
               /\ dp.out.plan = NoPlan
               /\ Len(dp.out.report) = 1 /\ ItemsOf("IMPORTANT_INFO") = {1}

\* two non-empty snapshots of the same names and sizes, differing in a hash
C18_Witness ==
    /\ PlannerReturned
    /\ LocalNames = Names /\ RemoteNames = Names /\ SizeDrift = {}
    /\ dp.local_snap # dp.remote_snap
    /\ dp.out.plan = NoPlan
    /\ ItemsOf("IMPORTANT_INFO") = {1}

\* C19 as stated: an add-list name of the remote snapshot is in to_download, whatever is
\* there locally and whatever else is due, unless the stop-list excludes it; an add-list
\* name absent from the remote snapshot is not planned for download, and for retirement
\* only as the local-only file it is.
C19_AddListForcesDownload ==
    PlannerReturned =>
        \A n \in dp.context.add_list :
            /\ (n \in RemoteNames /\ ~StopListed(n)) => n \in PlannedDownloads
            /\ (n \notin RemoteNames) =>
                   (n \notin PlannedDownloads /\ (n \in PlannedDeletes => n \in LocalNames))

\* C36 as stated: every entry of to_download carries the size the remote snapshot records
\* for its name, the entries added for a difference of sizes included.
C36_DownloadsCarryRemoteSize ==
    PlannerReturned =>
        \A i \in 1..Len(dp.out.plan.to_download) :
            /\ dp.out.plan.to_download[i].name \in RemoteNames
            /\ dp.out.plan.to_download[i].size =
                   dp.remote_snap[dp.out.plan.to_download[i].name].size

\* a name whose sizes differ was planned for download
C36_Witness ==
    /\ PlannerReturned
    /\ \E n \in SizeDrift : n \in PlannedDownloads

\* C37 as stated: to_download holds at most one entry per file name and so does to_delete,
\* for all snapshots, add-lists and stop-lists.
C37_OneEntryPerName ==
    PlannerReturned =>
        /\ \A i, j \in 1..Len(dp.out.plan.to_download) :
               (dp.out.plan.to_download[i].name = dp.out.plan.to_download[j].name) => (i = j)
        /\ \A i, j \in 1..Len(dp.out.plan.to_delete) :
               (dp.out.plan.to_delete[i].name = dp.out.plan.to_delete[j].name) => (i = j)

\* an add-listed name of both snapshots whose sizes differ was planned, next to a
\* remote-only name
C37_Witness ==
    /\ PlannerReturned
    /\ RemoteNames \ LocalNames # {}
    /\ \E n \in SizeDrift \cap dp.context.add_list : n \in PlannedDownloads

\* C38 as stated: in stop-list mode no file whose component is stop-listed is in
\* to_download, whichever rule selected it (remote-only, add-listed, sizes differ).
C38_StopListCoversEveryRule ==
    (PlannerReturned /\ dp.context.mode_stop_list = "USE_STOP_LIST") =>
        \A n \in PlannedDownloads : NameFileToNameComponent(n) \notin dp.context.stop_list

\* in stop-list mode a file of a stop-listed component is in both snapshots with
\* different sizes
C38_Witness ==
    /\ PlannerReturned
    /\ dp.context.mode_stop_list = "USE_STOP_LIST"
    /\ \E n \in SizeDrift : NameFileToNameComponent(n) \in dp.context.stop_list

(***************************************************************************)
(* Properties of one download (checked under SpecDownloadFile)             *)
(***************************************************************************)
Fetches == df.fetches
FetchIndexes == 1..Len(df.fetches)
InitialLength == PathSize(df.initial)

\* C11 as stated: once a fetch of the file has failed with a permanent fault, no further
\* fetch of that file is issued within the call.
C11_NoFetchAfterPermanentFault ==
    (df.pc # "idle") =>
        \A i \in FetchIndexes : (Fetches[i].result = "permanent") => (i = Len(Fetches))

\* C13: with a local file of length L <= R the first fetch asks for offset L and the L
\* bytes stay; every fetch asks for the length the local file has at that moment; the call
\* returns only with a local file of R bytes and otherwise raises DownloadFileError.
C13_ResumeCorrectness ==
    (df.pc \notin {"idle", "called"}) =>
        /\ (df.size # NoSize /\ InitialLength <= df.size) =>
               /\ (Fetches # <<>>) => (Fetches[1].offset = InitialLength)
               /\ Len(df.local.data) >= InitialLength
               /\ SubSeq(df.local.data, 1, InitialLength) = df.initial.data
               /\ (df.pc = "raised") => (df.error = "DownloadFileError")
        /\ \A i \in FetchIndexes : Fetches[i].offset = Fetches[i].length
        /\ (df.pc = "returned") => (df.size # NoSize /\ PathSize(df.local) = df.size)

\* a partial file was completed by a retried fetch and its bytes were kept
C13_Witness ==
    /\ df.pc = "returned"
    /\ 0 < InitialLength /\ InitialLength < df.size
    /\ Len(Fetches) >= 2
    /\ Fetches[1].offset = InitialLength
    /\ Fetches[1].result = "transient"
    /\ df.local.data = df.initial.data \o SubSeq(df.remote_data, InitialLength + 1, df.size)

\* C14 as stated: a fetch issued while the local file is longer than the reported size asks
\* for offset 0 and writes the file from scratch, so that none of its bytes survive; the
\* file is opened in append mode exactly when the offset is greater than 0.
C14_RestartFromZero ==
    (df.pc # "idle") =>
        /\ \A i \in FetchIndexes :
              /\ (df.size # NoSize /\ Fetches[i].seen > df.size) =>
                     (Fetches[i].offset = 0 /\ Fetches[i].mode = "wb")
              /\ Fetches[i].opened => (Fetches[i].mode = "ab" <=> Fetches[i].offset > 0)
        /\ (Fetches # <<>> /\ InitialLength > df.size) =>
               \A b \in 1..Len(df.local.data) : df.local.data[b] # OldBytes(1)[1]

(***************************************************************************)
(* Properties of one listing (checked under SpecDownloadDir)               *)
(***************************************************************************)
\* C12 as stated: a transient fault while the listing is read is retried inside the
\* adapter: download_dir fails only on a permanent fault or after ftp_repeat attempts of
\* the failing command, and a command that failed transiently before that is sent again.
C12_ListingFaultRetried ==
    (dd.pc # "idle") =>
        /\ (dd.pc = "raised") =>
               \E last \in {dd.commands[Len(dd.commands)]} :
                   \/ last.result = "permanent"
                   \/ last.result = "transient" /\ last.attempt = dd.repeat
        /\ \A i \in 1..Len(dd.commands) :
               (dd.commands[i].result = "transient"
                /\ dd.commands[i].attempt < dd.repeat /\ i < Len(dd.commands)) =>
                   dd.commands[i + 1].cmd = dd.commands[i].cmd

(***************************************************************************)
(* Properties of the retry envelope (checked under SpecFtpCall)            *)
(***************************************************************************)
ActionEvents == {"action_ok", "action_temp", "action_perm", "action_unknown"}

NumActions == Cardinality({i \in 1..Len(fc_trace) : fc_trace[i] \in ActionEvents})

NumEvents(ev) == Cardinality({i \in 1..Len(fc_trace) : fc_trace[i] = ev})

FtpCallFinished == fc_pc \in {"returned", "raised"}

AllActionsTransient ==
    \A i \in 1..Len(fc_trace) : fc_trace[i] \in ActionEvents => fc_trace[i] = "action_temp"

\* C8: a permanent fault of the action (error_perm, error_reply, error_proto) is the
\* last thing _ftp_call does: it raises err_cls chained to that fault at once, and no
\* action, reconnect or sleep follows it.
C8_PermanentNoRetry ==
    \A i \in 1..Len(fc_trace) :
        fc_trace[i] = "action_perm" =>
            /\ i = Len(fc_trace)
            /\ fc_pc = "raised"
            /\ fc_outcome.kind = "err_cls"
            /\ fc_outcome.cause = fc_cur
            /\ fc_cur.cls \in PermanentClasses
            /\ ~ENABLED FtpNext

C8_Witness ==
    /\ fc_pc = "raised"
    /\ fc_cur.cls \in PermanentClasses
    /\ Len(fc_trace) > 1
    /\ fc_trace[Len(fc_trace)] = "action_perm"
    /\ fc_iter < fc_repeat

\* C9: when every attempt fails with a transient fault the action is invoked exactly
\* ftp_repeat times (never more), and the wrapper then raises err_cls whose cause is
\* the failure of the last reconnect if it failed, else the last fault of the action.
C9_Exhaustion ==
    /\ NumActions <= fc_repeat
    /\ (FtpCallFinished /\ AllActionsTransient) =>
          /\ NumActions = fc_repeat
          /\ fc_pc = "raised"
          /\ fc_outcome.kind = "err_cls"
          /\ fc_outcome.cause =
                IF fc_trace[Len(fc_trace) - 1] = "reconnect_fail" THEN fc_recon ELSE fc_cur
          /\ fc_outcome.cause.at = fc_repeat
          /\ fc_outcome.cause.src =
                IF fc_trace[Len(fc_trace) - 1] = "reconnect_fail" THEN "reconnect" ELSE "action"
    /\ (fc_pc = "loop" /\ AllActionsTransient /\ NumActions = fc_repeat) =>
          (ENABLED RetriesExhausted /\ ~ENABLED ActionReturns /\ ~ENABLED ActionRaises)

C9_Witness ==
    /\ fc_pc = "raised"
    /\ AllActionsTransient
    /\ fc_repeat >= 2
    /\ NumActions = fc_repeat
    /\ fc_outcome.cause.src = "reconnect"
    /\ fc_trace[2] = "reconnect_ok"

\* the shape every transient fault must have in the trace: reconnect, sleep, action
RetryShape(i, mustRetry) ==
    /\ (i + 1 <= Len(fc_trace)) => fc_trace[i + 1] \in {"reconnect_ok", "reconnect_fail"}
    /\ (i + 2 <= Len(fc_trace)) => fc_trace[i + 2] = "sleep"
    /\ (i + 3 <= Len(fc_trace)) => fc_trace[i + 3] \in ActionEvents
    /\ (FtpCallFinished /\ mustRetry) => i + 3 <= Len(fc_trace)

\* C10 as stated: after EVERY transient fault the action is invoked again.
C10_Original ==
    \A i \in 1..Len(fc_trace) : fc_trace[i] = "action_temp" => RetryShape(i, TRUE)

\* C10 (amended): every transient fault is followed by exactly one reconnect (ok or
\* failed, never retried, never ending the loop), then exactly one sleep, then - if
\* fewer than ftp_repeat invocations have been made - the next invocation of the
\* action; after the ftp_repeat-th transient fault the reconnect and the sleep are
\* still performed and the wrapper raises. A successful invocation returns the result.
C10_RetryStep ==
    /\ \A i \in 1..Len(fc_trace) :
          fc_trace[i] = "action_temp" =>
             /\ RetryShape(i, Cardinality({j \in 1..i : fc_trace[j] \in ActionEvents}) < fc_repeat)
             /\ (FtpCallFinished => i + 2 <= Len(fc_trace))
    /\ \A i \in 1..Len(fc_trace) :
          /\ fc_trace[i] \in {"reconnect_ok", "reconnect_fail"} => (i > 1 /\ fc_trace[i - 1] = "action_temp")
          /\ fc_trace[i] = "sleep" => (i > 2 /\ fc_trace[i - 1] \in {"reconnect_ok", "reconnect_fail"})
          /\ fc_trace[i] = "action_ok" =>
                (i = Len(fc_trace) /\ fc_pc = "returned" /\ fc_outcome.kind = "result")
    /\ fc_pc = "returned" => fc_trace[Len(fc_trace)] = "action_ok"

C10_Witness ==
    /\ fc_pc = "returned"
    /\ fc_repeat = 3
    /\ fc_trace = <<"action_temp", "reconnect_fail", "sleep",
                    "action_temp", "reconnect_ok", "sleep", "action_ok">>

====
